---- MODULE Spec2Model ----
(***************************************************************************)
(* The settlement engine of Intranet-x402: the LocalUSDC ledger            *)
(* (local/evm/src/LocalUSDC.sol) and the facilitator's verify -> settle    *)
(* lifecycle with its verification cache (the TypeScript facilitator).     *)
(***************************************************************************)
EXTENDS Integers, Sequences, FiniteSets, TLC

\* ------------------------------------------------------------------ bounds

\* Largest value of the ledger's unsigned word (2^256 - 1 in the contract).
MaxUint == 3
\* Number of clock advances explored.
MaxTicks == 2
\* Date.now() at the start, in milliseconds.
StartTime == 1000

Modulus == MaxUint + 1

\* ------------------------------------------------------------------ time

\* The verification TTL of onBeforeSettle, in milliseconds.
TTL == 5 * 60 * 1000

\* block.timestamp is in seconds, Date.now() in milliseconds.
BlockTimestamp(ms) == ms \div 1000

StartSec == BlockTimestamp(StartTime)
TTLSec == BlockTimestamp(TTL)

\* ------------------------------------------------------------------ addresses

Zero == "0x0"
Owner == "owner"
Buyer == "buyer"
Payee == "payee"
\* The address ecrecover yields for a signature that does not fit the digest:
\* an address nobody holds a key for.
Stranger == "stranger"

Facilitator == "facilitator"

Accounts == {Owner, Buyer, Payee, Facilitator}
Addresses == Accounts \cup {Zero, Stranger}

Nonces == {"n1", "n2"}

\* ------------------------------------------------------------------ signatures

\* The EIP-712 domain of this ledger instance.
ChainId == 84532
ThisContract == "LocalUSDC"
DOMAIN_SEPARATOR == <<"USDC", "2", ChainId, ThisContract>>

\* The digest without the domain separator.
DigestNoDomain(domain, a) ==
    <<"", a.from, a.to, a.value, a.validAfter, a.validBefore, a.nonce>>

\* keccak256 over the typed authorization, taken as injective.
Digest(domain, a) ==
    <<domain, a.from, a.to, a.value, a.validAfter, a.validBefore, a.nonce>>

NoDigest == <<>>

\* A signature is len bytes: r || s (here the pair of the signing key and the
\* digest signed, or junk), then the recovery identifier v.
Sign(key, digest) ==
    [len |-> 65, key |-> key, digest |-> digest, parity |-> 0, v |-> 27]

JunkSignature == [len |-> 65, key |-> "none", digest |-> NoDigest, parity |-> 0, v |-> 27]

Truncated(sig) == [sig EXCEPT !.len = 64]

NoSignature == [len |-> 0, key |-> "none", digest |-> NoDigest, parity |-> 0, v |-> 0]

\* ecrecover yielding the key's address whatever digest was signed.
ecrecoverAnyDigest(digest, v, sig) ==
    IF sig.key = "none" THEN Zero
    ELSE IF v = 27 + sig.parity THEN sig.key
    ELSE Stranger

\* The precompile: the signer's address when (r, s, v) is that key's signature
\* of the digest, the zero address for junk, another address otherwise.
ecrecover(digest, v, sig) ==
    IF sig.key = "none" THEN Zero
    ELSE IF sig.digest = digest /\ v = 27 + sig.parity THEN sig.key
    ELSE Stranger

\* ------------------------------------------------------------------ ledger

VARIABLES owner, totalSupply, balanceOf, authorizationState, lastTx, now, ticks,
          verifiedPayments, requests, executed, consumed, passed, flow, startAll, calldata,
          against, monitor

\* executed[<<authorizer, nonce>>] counts the successful transferWithAuthorization
\* transactions of that authorizer and nonce (a history variable).
\* consumed holds the payloads settled successfully and not verified
\* successfully since (a history variable).
\* passed holds the payloads that passed /verify of the workspace facilitator,
\* which keeps no record of them itself (a history variable).
\* flow is one tool call of the payer bridge with the resource server's part in
\* it; startAll is one run of the start-all script; calldata is the v, r, s of
\* the last call of the split overload of transferWithAuthorization.
\* against holds the requirement each payload was last verified against with
\* success and the requirement of each slot's settle request (a history
\* variable); monitor is the monitor process.

sideVars == <<flow, startAll, calldata, against, monitor>>

facVars == <<verifiedPayments, requests, consumed, passed, sideVars>>

ledgerVars == <<owner, totalSupply, balanceOf, authorizationState>>

\* The contract's storage as one value.
Storage ==
    [owner |-> owner, totalSupply |-> totalSupply, balanceOf |-> balanceOf,
     authorizationState |-> authorizationState]

Reverted(st, logs, reason) ==
    [status |-> "reverted", error |-> reason, state |-> st, logs |-> logs]

Success(st, logs) ==
    [status |-> "success", error |-> "", state |-> st, logs |-> logs]

TransferEvent(from, to, value) ==
    [event |-> "Transfer", from |-> from, to |-> to, value |-> value, nonce |-> ""]

AuthorizationUsedEvent(authorizer, nonce) ==
    [event |-> "AuthorizationUsed", from |-> authorizer, to |-> "", value |-> 0,
     nonce |-> nonce]

\* _recover without the normalization of v.
RecoverNoNormalize(digest, signature) ==
    IF signature.len # 65 THEN [ok |-> FALSE, reason |-> "invalid signature length", signer |-> Zero]
    ELSE IF ~(signature.v = 27 \/ signature.v = 28)
    THEN [ok |-> FALSE, reason |-> "invalid v", signer |-> Zero]
    ELSE LET signer == ecrecover(digest, signature.v, signature)
         IN  IF signer = Zero
             THEN [ok |-> FALSE, reason |-> "invalid signer", signer |-> Zero]
             ELSE [ok |-> TRUE, reason |-> "", signer |-> signer]

\* _recover: the signer of digest, or the revert reason.
Recover(digest, signature) ==
    IF signature.len # 65 THEN [ok |-> FALSE, reason |-> "invalid signature length", signer |-> Zero]
    ELSE LET v == IF signature.v < 27 THEN signature.v + 27 ELSE signature.v
         IN  IF ~(v = 27 \/ v = 28)
             THEN [ok |-> FALSE, reason |-> "invalid v", signer |-> Zero]
             ELSE LET signer == ecrecover(digest, v, signature)
                  IN  IF signer = Zero
                      THEN [ok |-> FALSE, reason |-> "invalid signer", signer |-> Zero]
                      ELSE [ok |-> TRUE, reason |-> "", signer |-> signer]

\* _transfer crediting the recipient from the balance read before the debit.
TransferSelfCredit(st, logs, from, to, amount) ==
    IF to = Zero THEN Reverted(st, logs, "invalid recipient")
    ELSE LET fromBalance == st.balanceOf[from]
         IN  IF ~(fromBalance >= amount) THEN Reverted(st, logs, "insufficient balance")
             ELSE LET debited == [st.balanceOf EXCEPT ![from] = (fromBalance - amount) % Modulus]
                      credited == [debited EXCEPT ![to] = (st.balanceOf[to] + amount) % Modulus]
                  IN  Success([st EXCEPT !.balanceOf = credited],
                              Append(logs, TransferEvent(from, to, amount)))

\* _transfer with the balance check ahead of the recipient check.
TransferBalanceFirst(st, logs, from, to, amount) ==
    LET fromBalance == st.balanceOf[from]
    IN  IF ~(fromBalance >= amount) THEN Reverted(st, logs, "insufficient balance")
        ELSE IF to = Zero THEN Reverted(st, logs, "invalid recipient")
        ELSE LET debited == [st.balanceOf EXCEPT ![from] = (fromBalance - amount) % Modulus]
                 credited == [debited EXCEPT ![to] = (debited[to] + amount) % Modulus]
             IN  Success([st EXCEPT !.balanceOf = credited],
                         Append(logs, TransferEvent(from, to, amount)))

\* _transfer, on the storage st with the logs emitted so far.
\* _transfer without the check of the recipient.
TransferAnyRecipient(st, logs, from, to, amount) ==
    LET fromBalance == st.balanceOf[from]
    IN  IF ~(fromBalance >= amount) THEN Reverted(st, logs, "insufficient balance")
        ELSE LET debited == [st.balanceOf EXCEPT ![from] = (fromBalance - amount) % Modulus]
                 credited == [debited EXCEPT ![to] = (debited[to] + amount) % Modulus]
             IN  Success([st EXCEPT !.balanceOf = credited],
                         Append(logs, TransferEvent(from, to, amount)))

Transfer_(st, logs, from, to, amount) ==
    IF to = Zero THEN Reverted(st, logs, "invalid recipient")
    ELSE LET fromBalance == st.balanceOf[from]
         IN  IF ~(fromBalance >= amount) THEN Reverted(st, logs, "insufficient balance")
             ELSE LET debited == [st.balanceOf EXCEPT ![from] = (fromBalance - amount) % Modulus]
                      credited == [debited EXCEPT ![to] = (debited[to] + amount) % Modulus]
                  IN  Success([st EXCEPT !.balanceOf = credited],
                              Append(logs, TransferEvent(from, to, amount)))

\* The rest of _transferWithAuthorization without the AuthorizationUsed event.
AfterRecoveryNoEvent(st, a, recovered) ==
    IF ~recovered.ok THEN Reverted(st, <<>>, recovered.reason)
    ELSE IF recovered.signer # a.from THEN Reverted(st, <<>>, "invalid signature")
    ELSE LET marked == [st EXCEPT !.authorizationState[<<a.from, a.nonce>>] = TRUE]
         IN  Transfer_(marked, <<>>, a.from, a.to, a.value)

\* The rest of _transferWithAuthorization once the signer is recovered.
AfterRecovery(st, a, recovered) ==
    IF ~recovered.ok THEN Reverted(st, <<>>, recovered.reason)
    ELSE IF recovered.signer # a.from THEN Reverted(st, <<>>, "invalid signature")
    ELSE LET marked == [st EXCEPT !.authorizationState[<<a.from, a.nonce>>] = TRUE]
         IN  Transfer_(marked, <<AuthorizationUsedEvent(a.from, a.nonce)>>,
                       a.from, a.to, a.value)

\* _transferWithAuthorization without the check of authorizationState.
TransferWithAuthorizationReplayable(st, ts, a) ==
    IF ~(ts > a.validAfter) THEN Reverted(st, <<>>, "not yet valid")
    ELSE IF ~(ts < a.validBefore) THEN Reverted(st, <<>>, "authorization expired")
    ELSE AfterRecovery(st, a, Recover(Digest(DOMAIN_SEPARATOR, a), a.signature))

\* _transferWithAuthorization checking authorizationState after the signature.
TransferWithAuthorizationSigFirst(st, ts, a) ==
    LET recovered == Recover(Digest(DOMAIN_SEPARATOR, a), a.signature)
    IN  IF ~(ts > a.validAfter) THEN Reverted(st, <<>>, "not yet valid")
        ELSE IF ~(ts < a.validBefore) THEN Reverted(st, <<>>, "authorization expired")
        ELSE IF ~recovered.ok THEN Reverted(st, <<>>, recovered.reason)
        ELSE IF recovered.signer # a.from THEN Reverted(st, <<>>, "invalid signature")
        ELSE IF st.authorizationState[<<a.from, a.nonce>>]
        THEN Reverted(st, <<>>, "authorization used")
        ELSE AfterRecovery(st, a, recovered)

\* _transferWithAuthorization accepting block.timestamp = validAfter.
TransferWithAuthorizationInclusive(st, ts, a) ==
    IF ~(ts >= a.validAfter) THEN Reverted(st, <<>>, "not yet valid")
    ELSE IF ~(ts < a.validBefore) THEN Reverted(st, <<>>, "authorization expired")
    ELSE IF st.authorizationState[<<a.from, a.nonce>>] THEN Reverted(st, <<>>, "authorization used")
    ELSE AfterRecovery(st, a, Recover(Digest(DOMAIN_SEPARATOR, a), a.signature))

\* _transferWithAuthorization at block.timestamp ts.
TransferWithAuthorization_(st, ts, a) ==
    IF ~(ts > a.validAfter) THEN Reverted(st, <<>>, "not yet valid")
    ELSE IF ~(ts < a.validBefore) THEN Reverted(st, <<>>, "authorization expired")
    ELSE IF st.authorizationState[<<a.from, a.nonce>>] THEN Reverted(st, <<>>, "authorization used")
    ELSE AfterRecovery(st, a, Recover(Digest(DOMAIN_SEPARATOR, a), a.signature))

\* mint with unchecked addition on totalSupply.
MintUncheckedSupply(st, sender, to, amount) ==
    IF sender # st.owner THEN Reverted(st, <<>>, "only owner")
    ELSE LET supplied == [st EXCEPT !.totalSupply = (st.totalSupply + amount) % Modulus]
         IN  IF supplied.balanceOf[to] + amount > MaxUint
             THEN Reverted(supplied, <<>>, "panic: overflow")
             ELSE Success([supplied EXCEPT !.balanceOf[to] = supplied.balanceOf[to] + amount],
                          <<TransferEvent(Zero, to, amount)>>)

\* mint crediting the balance without adding to totalSupply.
MintBalanceOnly(st, sender, to, amount) ==
    IF sender # st.owner THEN Reverted(st, <<>>, "only owner")
    ELSE IF st.balanceOf[to] + amount > MaxUint THEN Reverted(st, <<>>, "panic: overflow")
    ELSE Success([st EXCEPT !.balanceOf[to] = st.balanceOf[to] + amount],
                 <<TransferEvent(Zero, to, amount)>>)

\* mint without the onlyOwner modifier.
MintByAnyone(st, sender, to, amount) ==
    IF st.totalSupply + amount > MaxUint THEN Reverted(st, <<>>, "panic: overflow")
    ELSE LET supplied == [st EXCEPT !.totalSupply = st.totalSupply + amount]
         IN  IF supplied.balanceOf[to] + amount > MaxUint
             THEN Reverted(supplied, <<>>, "panic: overflow")
             ELSE Success([supplied EXCEPT !.balanceOf[to] = supplied.balanceOf[to] + amount],
                          <<TransferEvent(Zero, to, amount)>>)

\* mint, called by sender (onlyOwner; checked arithmetic).
Mint_(st, sender, to, amount) ==
    IF sender # st.owner THEN Reverted(st, <<>>, "only owner")
    ELSE IF st.totalSupply + amount > MaxUint THEN Reverted(st, <<>>, "panic: overflow")
    ELSE LET supplied == [st EXCEPT !.totalSupply = st.totalSupply + amount]
         IN  IF supplied.balanceOf[to] + amount > MaxUint
             THEN Reverted(supplied, <<>>, "panic: overflow")
             ELSE Success([supplied EXCEPT !.balanceOf[to] = supplied.balanceOf[to] + amount],
                          <<TransferEvent(Zero, to, amount)>>)

\* A transaction whose writes stay in storage when it fails.
CommitPartial(pre, result) == result.state

\* A transaction's effect on storage: a revert discards every write it made.
Commit(pre, result) ==
    IF result.status = "success" THEN result.state ELSE pre

\* The receipt of a transaction: its logs are those of a successful run only.
Receipt(fn, sender, a, pre, ts, result) ==
    [fn |-> fn, sender |-> sender, args |-> a, timestamp |-> ts,
     status |-> result.status, error |-> result.error,
     logs |-> IF result.status = "success" THEN result.logs ELSE <<>>,
     pre |-> pre]

NoArgs ==
    [from |-> Zero, to |-> Zero, value |-> 0, validAfter |-> 0, validBefore |-> 0,
     nonce |-> "", signature |-> NoSignature]

Execute(fn, sender, a, result) ==
    LET post == Commit(Storage, result)
    IN  /\ owner' = post.owner
        /\ totalSupply' = post.totalSupply
        /\ balanceOf' = post.balanceOf
        /\ authorizationState' = post.authorizationState
        /\ lastTx' = Receipt(fn, sender, a, Storage, BlockTimestamp(now), result)
        /\ executed' =
              IF fn \in {"transferWithAuthorization", "transferWithAuthorizationSplit"}
                    /\ result.status = "success"
              THEN [executed EXCEPT ![<<a.from, a.nonce>>] = @ + 1]
              ELSE executed

\* ------------------------------------------------------------------ ledger calls

\* The amounts callers pass to transfer and transferWithAuthorization, and to mint.
Values == {0, 1, 2}
MintAmounts == {1, 2}

\* Validity windows (validAfter, validBefore), in seconds.
Far == StartSec + 2 * TTLSec + 10
Windows == {<<StartSec, StartSec + 2>>, <<StartSec - 1, StartSec + 1>>,
            <<StartSec + 1, StartSec>>}

Authorization(from, to, value, w, nonce) ==
    [NoArgs EXCEPT !.from = from, !.to = to, !.value = value, !.validAfter = w[1],
                   !.validBefore = w[2], !.nonce = nonce]

\* The signatures a caller may attach to authorization a: the authorizer's own,
\* another account's, a short one, junk.
SignatureChoices(a) ==
    {Sign(a.from, Digest(DOMAIN_SEPARATOR, a)),
     Sign(Owner, Digest(DOMAIN_SEPARATOR, a)),
     Truncated(Sign(a.from, Digest(DOMAIN_SEPARATOR, a))),
     JunkSignature}

mint(sender, to, amount) ==
    /\ UNCHANGED <<now, ticks, facVars>>
    /\ Execute("mint", sender, [NoArgs EXCEPT !.to = to, !.value = amount],
               Mint_(Storage, sender, to, amount))

transfer(sender, to, amount) ==
    /\ UNCHANGED <<now, ticks, facVars>>
    /\ Execute("transfer", sender,
               [NoArgs EXCEPT !.from = sender, !.to = to, !.value = amount],
               Transfer_(Storage, <<>>, sender, to, amount))

transferWithAuthorization(sender, a) ==
    /\ UNCHANGED <<now, ticks, facVars>>
    /\ Execute("transferWithAuthorization", sender, a,
               TransferWithAuthorization_(Storage, BlockTimestamp(now), a))

\* The caller has read the receipt of its transaction; the next transaction is
\* not in yet.
ReceiptRead ==
    /\ lastTx.fn # "none"
    /\ lastTx' = [fn |-> "none", sender |-> Zero, args |-> NoArgs,
                  timestamp |-> BlockTimestamp(now), status |-> "success", error |-> "",
                  logs |-> <<>>, pre |-> Storage]
    /\ UNCHANGED <<ledgerVars, now, ticks, facVars, executed>>

Tick(d) ==
    /\ ticks < MaxTicks
    /\ ticks' = ticks + 1
    /\ now' = now + d
    /\ UNCHANGED <<ledgerVars, lastTx, facVars, executed>>

vars == <<owner, totalSupply, balanceOf, authorizationState, lastTx, now, ticks,
          verifiedPayments, requests, executed, consumed, passed, flow, startAll, calldata,
          against, monitor>>

\* ------------------------------------------------------------------ ledger properties

IsAuthorizedTransfer(tx) == tx.fn = "transferWithAuthorization"

AuthKey(tx) == <<tx.args.from, tx.args.nonce>>

\* now inside the authorization's validity window, both ends excluded.
InWindow(tx) == tx.args.validAfter < tx.timestamp /\ tx.timestamp < tx.args.validBefore

\* The signature is the authorizer's own over exactly the submitted fields.
SignedByAuthorizer(a) ==
    /\ a.signature.key = a.from
    /\ a.signature.digest = Digest(DOMAIN_SEPARATOR, a)
    /\ a.signature.v \in {a.signature.parity, 27 + a.signature.parity}

\* C2: a nonce record goes only from false to true, only in a successful
\* transferWithAuthorization of that authorizer and nonce, and a call whose
\* nonce record is already true is rejected.
C2_NonceRecordOnlySet ==
    /\ \A k \in Addresses \X Nonces :
          /\ lastTx.pre.authorizationState[k] => authorizationState[k]
          /\ authorizationState[k] # lastTx.pre.authorizationState[k] =>
                /\ IsAuthorizedTransfer(lastTx)
                /\ lastTx.status = "success"
                /\ k = AuthKey(lastTx)
    /\ (IsAuthorizedTransfer(lastTx) /\ lastTx.pre.authorizationState[AuthKey(lastTx)]) =>
          lastTx.status = "reverted"

\* A repeat of a used (authorizer, nonce) inside its window, carrying the
\* authorizer's valid signature, was rejected.
C2_Witness ==
    /\ IsAuthorizedTransfer(lastTx)
    /\ lastTx.pre.authorizationState[AuthKey(lastTx)]
    /\ InWindow(lastTx)
    /\ SignedByAuthorizer(lastTx.args)
    /\ lastTx.status = "reverted"
    /\ authorizationState[AuthKey(lastTx)]

\* C3 as stated: a call with a used (authorizer, nonce) fails with
\* "authorization used", whatever else it carries.
C3_AlwaysNonceAlreadyUsed ==
    (IsAuthorizedTransfer(lastTx) /\ lastTx.pre.authorizationState[AuthKey(lastTx)]) =>
       (lastTx.status = "reverted" /\ lastTx.error = "authorization used")

\* C3, amended: a call with a used (authorizer, nonce) always fails; the error is
\* "authorization used" whenever the call's validity window contains the block
\* time, whatever the signature, and the window's own error otherwise.
C3_RepeatRejected ==
    (IsAuthorizedTransfer(lastTx) /\ lastTx.pre.authorizationState[AuthKey(lastTx)]) =>
       /\ lastTx.status = "reverted"
       /\ InWindow(lastTx) => lastTx.error = "authorization used"
       /\ ~InWindow(lastTx) => lastTx.error \in {"not yet valid", "authorization expired"}

\* A repeat with a junk signature inside the window fails with "authorization used".
C3_Witness ==
    /\ IsAuthorizedTransfer(lastTx)
    /\ lastTx.pre.authorizationState[AuthKey(lastTx)]
    /\ InWindow(lastTx)
    /\ lastTx.args.signature = JunkSignature
    /\ lastTx.error = "authorization used"

\* C4: a successful transferWithAuthorization ran strictly inside the validity
\* window, with the authorizer's signature over its fields and a balance of at
\* least value.
C4_SuccessOnlyIf ==
    (IsAuthorizedTransfer(lastTx) /\ lastTx.status = "success") =>
       /\ lastTx.args.validAfter < lastTx.timestamp
       /\ lastTx.timestamp < lastTx.args.validBefore
       /\ SignedByAuthorizer(lastTx.args)
       /\ lastTx.pre.balanceOf[lastTx.args.from] >= lastTx.args.value

\* A transfer of a positive value that succeeded one second after validAfter and
\* one second before validBefore.
C4_Witness ==
    /\ IsAuthorizedTransfer(lastTx)
    /\ lastTx.status = "success"
    /\ lastTx.args.value > 0
    /\ lastTx.timestamp = lastTx.args.validAfter + 1
    /\ lastTx.timestamp = lastTx.args.validBefore - 1

MovesValue(tx) ==
    /\ tx.fn \in {"transfer", "transferWithAuthorization"}
    /\ tx.status = "success"

\* C5 as stated: after a successful transfer of v from A to B, A holds v less and
\* B holds v more, for all A and B, A = B included.
C5_ConservationAnyPair ==
    MovesValue(lastTx) =>
       /\ balanceOf[lastTx.args.from] = lastTx.pre.balanceOf[lastTx.args.from] - lastTx.args.value
       /\ balanceOf[lastTx.args.to] = lastTx.pre.balanceOf[lastTx.args.to] + lastTx.args.value
       /\ \A x \in Addresses \ {lastTx.args.from, lastTx.args.to} :
             balanceOf[x] = lastTx.pre.balanceOf[x]

\* C5, amended: for A # B, A holds v less, B holds v more and no other balance
\* changes; for A = B no balance changes at all. totalSupply is unchanged.
C5_Conservation ==
    MovesValue(lastTx) =>
       LET A == lastTx.args.from
           B == lastTx.args.to
           v == lastTx.args.value
       IN  /\ A # B =>
                /\ balanceOf[A] = lastTx.pre.balanceOf[A] - v
                /\ balanceOf[B] = lastTx.pre.balanceOf[B] + v
                /\ \A x \in Addresses \ {A, B} : balanceOf[x] = lastTx.pre.balanceOf[x]
           /\ A = B => balanceOf = lastTx.pre.balanceOf
           /\ totalSupply = lastTx.pre.totalSupply

\* A positive value moved between two accounts while a third account holds a balance.
C5_Witness ==
    /\ MovesValue(lastTx)
    /\ lastTx.args.from # lastTx.args.to
    /\ lastTx.args.value > 0
    /\ \E x \in Addresses \ {lastTx.args.from, lastTx.args.to} : balanceOf[x] > 0

\* C6: a failed call leaves balances, totalSupply, the nonce records and the
\* logs as they were, and a nonce is never marked used without its transfer
\* having been executed.
C6_Atomic ==
    /\ lastTx.status = "reverted" => (Storage = lastTx.pre /\ lastTx.logs = <<>>)
    /\ \A k \in Addresses \X Nonces : authorizationState[k] => executed[k] >= 1

\* A call that failed in _transfer, after the nonce record had been written.
C6_Witness ==
    /\ IsAuthorizedTransfer(lastTx)
    /\ lastTx.status = "reverted"
    /\ lastTx.error \in {"invalid recipient", "insufficient balance"}
    /\ ~authorizationState[AuthKey(lastTx)]

\* The preconditions of transferWithAuthorization, by the name of the error.
Violates(tx, name) ==
    CASE name = "NotYetValid" -> ~(tx.args.validAfter < tx.timestamp)
      [] name = "Expired" -> ~(tx.timestamp < tx.args.validBefore)
      [] name = "NonceAlreadyUsed" -> tx.pre.authorizationState[AuthKey(tx)]
      [] name = "InvalidSignatureLength" -> tx.args.signature.len # 65
      [] name = "InvalidSignatureRecovery" -> ~SignedByAuthorizer(tx.args)
      [] name = "InsufficientBalance" -> tx.pre.balanceOf[tx.args.from] < tx.args.value
      [] name = "InvalidRecipient" -> tx.args.to = Zero

ErrorName(error) ==
    CASE error = "not yet valid" -> "NotYetValid"
      [] error = "authorization expired" -> "Expired"
      [] error = "authorization used" -> "NonceAlreadyUsed"
      [] error = "invalid signature length" -> "InvalidSignatureLength"
      [] error \in {"invalid v", "invalid signer", "invalid signature"} ->
            "InvalidSignatureRecovery"
      [] error = "insufficient balance" -> "InsufficientBalance"
      [] error = "invalid recipient" -> "InvalidRecipient"
      [] OTHER -> "none"

FirstViolated(tx, order) ==
    LET bad == {i \in 1 .. Len(order) : Violates(tx, order[i])}
    IN  IF bad = {} THEN "none"
        ELSE order[CHOOSE i \in bad : \A j \in bad : i <= j]

ReportsFirstOf(tx, order) ==
    IsAuthorizedTransfer(tx) =>
       IF FirstViolated(tx, order) = "none"
       THEN tx.status = "success"
       ELSE tx.status = "reverted" /\ ErrorName(tx.error) = FirstViolated(tx, order)

\* C7 as stated: the error is the first violated precondition in the order
\* NotYetValid, Expired, NonceAlreadyUsed, InvalidSignatureLength,
\* InvalidSignatureRecovery, InsufficientBalance, InvalidRecipient.
C7_ErrorOrderAsStated ==
    ReportsFirstOf(lastTx, <<"NotYetValid", "Expired", "NonceAlreadyUsed",
                             "InvalidSignatureLength", "InvalidSignatureRecovery",
                             "InsufficientBalance", "InvalidRecipient">>)

\* C7, amended: the error is the first violated precondition in the order
\* NotYetValid, Expired, NonceAlreadyUsed, InvalidSignatureLength,
\* InvalidSignatureRecovery, InvalidRecipient, InsufficientBalance.
C7_ErrorOrder ==
    ReportsFirstOf(lastTx, <<"NotYetValid", "Expired", "NonceAlreadyUsed",
                             "InvalidSignatureLength", "InvalidSignatureRecovery",
                             "InvalidRecipient", "InsufficientBalance">>)

\* A call to the zero address for more than the authorizer holds reported
\* "invalid recipient".
C7_Witness ==
    /\ IsAuthorizedTransfer(lastTx)
    /\ Violates(lastTx, "InvalidRecipient")
    /\ Violates(lastTx, "InsufficientBalance")
    /\ lastTx.error = "invalid recipient"

\* C20: mint succeeds only for the owner; on success totalSupply and the
\* recipient's balance grow by exactly amount and nothing else changes; a call by
\* another account fails with "only owner" and changes nothing; the owner is
\* the deployer for ever.
C20_MintOnlyOwner ==
    /\ owner = Owner
    /\ lastTx.fn = "mint" =>
          /\ lastTx.status = "success" =>
                /\ lastTx.sender = lastTx.pre.owner
                /\ totalSupply = lastTx.pre.totalSupply + lastTx.args.value
                /\ balanceOf[lastTx.args.to] =
                      lastTx.pre.balanceOf[lastTx.args.to] + lastTx.args.value
                /\ \A x \in Addresses \ {lastTx.args.to} :
                      balanceOf[x] = lastTx.pre.balanceOf[x]
                /\ authorizationState = lastTx.pre.authorizationState
          /\ lastTx.sender # lastTx.pre.owner =>
                /\ lastTx.status = "reverted"
                /\ lastTx.error = "only owner"
                /\ Storage = lastTx.pre

\* The owner minted to an account that already held a balance, while another
\* account holds one too.
C20_Witness ==
    /\ lastTx.fn = "mint"
    /\ lastTx.status = "success"
    /\ lastTx.sender = Owner
    /\ lastTx.pre.balanceOf[lastTx.args.to] > 0
    /\ \E x \in Addresses \ {lastTx.args.to} : balanceOf[x] > 0

\* ------------------------------------------------------------------ facilitator

\* The request slots of the HTTP server: each holds one /settle request at a time.
Slots == {"s1", "s2"}

EVM_NETWORK == "eip155:84532"

Requirement ==
    [scheme |-> "exact", network |-> EVM_NETWORK, asset |-> ThisContract,
     amount |-> 1, payTo |-> Payee]

Signed(a) == [a EXCEPT !.signature = Sign(a.from, Digest(DOMAIN_SEPARATOR, a))]

PaymentPayload(a) ==
    [scheme |-> "exact", network |-> EVM_NETWORK, asset |-> ThisContract,
     authorization |-> a]

\* The request bodies a payer submits, by name: two authorizations of the buyer
\* with the same nonce, one valid for exactly the TTL from the start, one valid
\* for long.
Payloads == {"short", "long"}

\* The bodies sent to /verify: those, and four that fail one check each (signed
\* by another key, the wrong amount, the wrong payee, the wrong network).
VerifyInputs == Payloads \cup {"forged", "underpaid", "wrongpayee", "wrongnetwork"}

\* Each body, built once.
BodyTable ==
    [name \in VerifyInputs \cup {""} |->
        CASE name = "short" ->
                PaymentPayload(Signed(Authorization(Buyer, Payee, 1, <<0, StartSec + TTLSec>>, "n1")))
          [] name = "forged" ->
                PaymentPayload([Authorization(Buyer, Payee, 1, <<0, Far>>, "n1") EXCEPT
                   !.signature = Sign(Owner, Digest(DOMAIN_SEPARATOR,
                                         Authorization(Buyer, Payee, 1, <<0, Far>>, "n1")))])
          [] name = "underpaid" ->
                PaymentPayload(Signed(Authorization(Buyer, Payee, 0, <<0, Far>>, "n1")))
          [] name = "wrongpayee" ->
                PaymentPayload(Signed(Authorization(Buyer, Owner, 1, <<0, Far>>, "n1")))
          [] name = "wrongnetwork" ->
                [PaymentPayload(Signed(Authorization(Buyer, Payee, 1, <<0, Far>>, "n1")))
                   EXCEPT !.network = "eip155:1"]
          [] OTHER ->
                PaymentPayload(Signed(Authorization(Buyer, Payee, 1, <<0, Far>>, "n1")))]

Body(name) == BodyTable[name]

\* createPaymentHash: SHA-256 of JSON.stringify(paymentPayload), taken as injective
\* on the serialized fields.
createPaymentHash(paymentPayload) ==
    <<"sha256", paymentPayload.scheme, paymentPayload.network, paymentPayload.asset,
      Digest("authorization", paymentPayload.authorization),
      paymentPayload.authorization.signature>>

\* The paymentHash of each body, computed once.
HashTable == [name \in VerifyInputs \cup {""} |-> createPaymentHash(Body(name))]

HashOf(name) == HashTable[name]

\* Map.set / Map.delete / Map.has on verifiedPayments.
MapSet(m, k, v) == [x \in DOMAIN m \cup {k} |-> IF x = k THEN v ELSE m[x]]
MapDelete(m, k) == [x \in DOMAIN m \ {k} |-> m[x]]
MapHas(m, k) == k \in DOMAIN m

\* facilitator.verify without the balance check.
VerifyResultNoBalance(st, paymentPayload, requirements) ==
    LET a == paymentPayload.authorization
        recovered == Recover(Digest(DOMAIN_SEPARATOR, a), a.signature)
    IN  IF paymentPayload.scheme # requirements.scheme
           \/ paymentPayload.network # requirements.network
        THEN [isValid |-> FALSE, invalidReason |-> "unsupported_scheme"]
        ELSE IF paymentPayload.asset # requirements.asset \/ a.value # requirements.amount
                \/ a.to # requirements.payTo
        THEN [isValid |-> FALSE, invalidReason |-> "requirement_mismatch"]
        ELSE IF ~recovered.ok \/ recovered.signer # a.from
        THEN [isValid |-> FALSE, invalidReason |-> "invalid_signature"]
        ELSE IF st.authorizationState[<<a.from, a.nonce>>]
        THEN [isValid |-> FALSE, invalidReason |-> "nonce_used"]
        ELSE [isValid |-> TRUE, invalidReason |-> ""]

\* facilitator.verify of the payment SDK: the checks of the verification stage, in
\* order, on the ledger as it is read.
VerifyResult(st, paymentPayload, requirements) ==
    LET a == paymentPayload.authorization
        recovered == Recover(Digest(DOMAIN_SEPARATOR, a), a.signature)
    IN  IF paymentPayload.scheme # requirements.scheme
           \/ paymentPayload.network # requirements.network
        THEN [isValid |-> FALSE, invalidReason |-> "unsupported_scheme"]
        ELSE IF paymentPayload.asset # requirements.asset \/ a.value # requirements.amount
                \/ a.to # requirements.payTo
        THEN [isValid |-> FALSE, invalidReason |-> "requirement_mismatch"]
        ELSE IF ~recovered.ok \/ recovered.signer # a.from
        THEN [isValid |-> FALSE, invalidReason |-> "invalid_signature"]
        ELSE IF st.balanceOf[a.from] < a.value
        THEN [isValid |-> FALSE, invalidReason |-> "insufficient_funds"]
        ELSE IF st.authorizationState[<<a.from, a.nonce>>]
        THEN [isValid |-> FALSE, invalidReason |-> "nonce_used"]
        ELSE [isValid |-> TRUE, invalidReason |-> ""]

\* onAfterVerify keeping the timestamp of a record that is already there.
onAfterVerifyKeepsFirst(cache, paymentPayload, result, t) ==
    IF result.isValid /\ ~MapHas(cache, createPaymentHash(paymentPayload))
    THEN MapSet(cache, createPaymentHash(paymentPayload), t)
    ELSE cache

\* onAfterVerify recording nothing.
onAfterVerifyForgets(cache, paymentPayload, result, t) == cache

\* onAfterVerify recording every payload, valid or not.
onAfterVerifyAlways(cache, paymentPayload, result, t) ==
    MapSet(cache, createPaymentHash(paymentPayload), t)

\* onAfterVerify: record the hash of a payload that passed, at Date.now() = t.
onAfterVerify(cache, paymentPayload, result, t) ==
    IF result.isValid THEN MapSet(cache, createPaymentHash(paymentPayload), t) ELSE cache

\* onBeforeSettle admitting a payload that has no record.
onBeforeSettleUnordered(cache, paymentPayload, t) ==
    LET paymentHash == createPaymentHash(paymentPayload)
    IN  IF MapHas(cache, paymentHash) /\ t - cache[paymentHash] > TTL
        THEN [abort |-> TRUE,
              reason |-> "Payment verification expired (must settle within 5 minutes)",
              cache |-> MapDelete(cache, paymentHash)]
        ELSE [abort |-> FALSE, reason |-> "", cache |-> cache]

\* onBeforeSettle rejecting a verification of exactly the TTL's age.
onBeforeSettleExclusive(cache, paymentPayload, t) ==
    LET paymentHash == createPaymentHash(paymentPayload)
    IN  IF ~MapHas(cache, paymentHash) \/ cache[paymentHash] = 0
        THEN [abort |-> TRUE, reason |-> "Payment must be verified before settlement",
              cache |-> cache]
        ELSE IF t - cache[paymentHash] >= TTL
        THEN [abort |-> TRUE,
              reason |-> "Payment verification expired (must settle within 5 minutes)",
              cache |-> MapDelete(cache, paymentHash)]
        ELSE [abort |-> FALSE, reason |-> "", cache |-> cache]

\* onBeforeSettle removing, on an expiry abort, every record older than the TTL.
onBeforeSettleSweep(cache, paymentPayload, t) ==
    LET paymentHash == createPaymentHash(paymentPayload)
    IN  IF ~MapHas(cache, paymentHash) \/ cache[paymentHash] = 0
        THEN [abort |-> TRUE, reason |-> "Payment must be verified before settlement",
              cache |-> cache]
        ELSE IF t - cache[paymentHash] > TTL
        THEN [abort |-> TRUE,
              reason |-> "Payment verification expired (must settle within 5 minutes)",
              cache |-> [h \in {x \in DOMAIN cache : ~(t - cache[x] > TTL)} |-> cache[h]]]
        ELSE [abort |-> FALSE, reason |-> "", cache |-> cache]

\* onBeforeSettle at Date.now() = t: the hook's result and the cache it leaves.
onBeforeSettle(cache, paymentPayload, t) ==
    LET paymentHash == createPaymentHash(paymentPayload)
    IN  IF ~MapHas(cache, paymentHash) \/ cache[paymentHash] = 0
        THEN [abort |-> TRUE, reason |-> "Payment must be verified before settlement",
              cache |-> cache]
        ELSE IF t - cache[paymentHash] > TTL
        THEN [abort |-> TRUE,
              reason |-> "Payment verification expired (must settle within 5 minutes)",
              cache |-> MapDelete(cache, paymentHash)]
        ELSE [abort |-> FALSE, reason |-> "", cache |-> cache]

\* onAfterSettle clearing the whole cache.
onAfterSettleClears(cache, paymentPayload) == [h \in {} |-> 0]

\* onAfterSettle leaving the record in place.
onAfterSettleKeeps(cache, paymentPayload) == cache

\* onSettleFailure leaving the record in place.
onSettleFailureKeeps(cache, paymentPayload) == cache

\* onAfterSettle and onSettleFailure: both drop the payload's record.
onAfterSettle(cache, paymentPayload) == MapDelete(cache, createPaymentHash(paymentPayload))
onSettleFailure(cache, paymentPayload) == MapDelete(cache, createPaymentHash(paymentPayload))

NoResponse == [kind |-> "none", success |-> FALSE, errorReason |-> ""]
NoOutcome == [kind |-> "none", reason |-> ""]

\* live: the record that admitted the request is still the cache's record of
\* its payload (a history field: not removed and not replaced by a later verify).
IdleRequest ==
    [pc |-> "idle", body |-> "", submitted |-> FALSE,
     mutated |-> FALSE, outcome |-> NoOutcome, response |-> NoResponse,
     live |-> FALSE]

\* The requests once the cache is `cache` and the records of `replaced` were
\* written anew: a request whose record is gone or replaced is live no more.
Supersede(reqs, cache, replaced) ==
    [s \in DOMAIN reqs |->
        IF reqs[s].live
           /\ (~MapHas(cache, HashOf(reqs[s].body)) \/ HashOf(reqs[s].body) \in replaced)
        THEN [reqs[s] EXCEPT !.live = FALSE]
        ELSE reqs[s]]

\* A request body with one of its two parts left out.
Missing == "missing"

RequestBody(name, part) ==
    [paymentPayload |-> IF part = "paymentPayload" THEN Missing ELSE name,
     paymentRequirements |-> IF part = "paymentRequirements" THEN Missing ELSE "exact"]

Parts == {"paymentPayload", "paymentRequirements"}

\* The handlers' check looking at the payload only.
IsMalformedPayloadOnly(body) == body.paymentPayload = Missing

\* if (!paymentPayload || !paymentRequirements)
IsMalformed(body) == body.paymentPayload = Missing \/ body.paymentRequirements = Missing

\* res.status(400).json({ error: ... })
BadRequest ==
    [kind |-> "http400", success |-> FALSE,
     errorReason |-> "Missing paymentPayload or paymentRequirements"]

\* The settle result for a transaction that failed, naming no ledger error.
SettleOutcomeGeneric(result, throws) ==
    IF throws THEN [kind |-> "thrown", reason |-> "receipt timeout"]
    ELSE IF result.status = "success" THEN [kind |-> "success", reason |-> ""]
    ELSE [kind |-> "failure", reason |-> "transaction_failed"]

\* facilitator.settle of the payment SDK after the submission: the result it
\* returns for the transaction's receipt, or the error of a receipt wait.
SettleOutcome(result, throws) ==
    IF throws THEN [kind |-> "thrown", reason |-> "receipt timeout"]
    ELSE IF result.status = "success" THEN [kind |-> "success", reason |-> ""]
    ELSE [kind |-> "failure", reason |-> result.error]

\* The /settle handler's catch answering every error with an HTTP 500.
SettleCatchGeneric(message, aborted) ==
    [kind |-> "http500", success |-> FALSE, errorReason |-> message]

\* The /settle handler's catch answering every error with a structured result.
SettleCatchStructured(message, aborted) ==
    [kind |-> "json", success |-> FALSE, errorReason |-> message]

\* The /settle handler's catch: an abort by a hook becomes a structured
\* SettleResponse, any other error an HTTP 500.
SettleCatch(message, aborted) ==
    IF aborted
    THEN [kind |-> "json", success |-> FALSE, errorReason |-> message]
    ELSE [kind |-> "http500", success |-> FALSE, errorReason |-> message]

\* POST /verify: facilitator.verify, then the onAfterVerify hook.
Verify(name) ==
    /\ LET result == VerifyResult(Storage, Body(name), Requirement)
           cache == onAfterVerify(verifiedPayments, Body(name), result, now)
       IN  /\ verifiedPayments' = cache
           /\ requests' = Supersede(requests, cache,
                 IF result.isValid THEN {HashOf(name)} ELSE {})
           /\ consumed' = IF result.isValid THEN consumed \ {name} ELSE consumed
    /\ UNCHANGED <<ledgerVars, lastTx, now, ticks, executed, passed, sideVars>>

\* POST /settle up to the first wait: the onBeforeSettle hook aborts the
\* settlement or admits it.
SettleRequest(s, name) ==
    /\ requests[s].pc = "idle"
    /\ LET before == onBeforeSettle(verifiedPayments, Body(name), now)
       IN  /\ verifiedPayments' = before.cache
           /\ requests' = Supersede([requests EXCEPT ![s] =
                 IF before.abort
                 THEN [IdleRequest EXCEPT !.pc = "done", !.body = name,
                          !.response = SettleCatch(before.reason, TRUE)]
                 ELSE [IdleRequest EXCEPT !.pc = "admitted", !.body = name,
                          !.live = TRUE]], before.cache, {})
    /\ UNCHANGED <<ledgerVars, lastTx, now, ticks, executed, consumed, passed, sideVars>>

\* The ledger stage of an admitted settlement: the transaction is executed and
\* its receipt read, or the submission faults.
SettleSubmit(s, throws) ==
    /\ requests[s].pc = "admitted"
    /\ LET a == Body(requests[s].body).authorization
           result == TransferWithAuthorization_(Storage, BlockTimestamp(now), a)
       IN  /\ Execute("transferWithAuthorization", Facilitator, a, result)
           /\ requests' = [requests EXCEPT ![s] =
                 [@ EXCEPT !.pc = "executed", !.submitted = TRUE,
                           !.mutated = (result.status = "success"),
                           !.outcome = SettleOutcome(result, throws)]]
    /\ UNCHANGED <<now, ticks, verifiedPayments, consumed, passed, sideVars>>

\* The ledger cannot be reached: the submission throws and nothing is executed.
SettleUnreachable(s) ==
    /\ requests[s].pc = "admitted"
    /\ requests' = [requests EXCEPT ![s] =
          [@ EXCEPT !.pc = "executed",
                    !.outcome = [kind |-> "thrown", reason |-> "ledger unreachable"]]]
    /\ UNCHANGED <<ledgerVars, lastTx, now, ticks, verifiedPayments, executed, consumed,
                    passed, sideVars>>

\* The end of the settlement submitting again after a thrown error.
SettleFinishRetry(s) ==
    /\ requests[s].pc = "executed"
    /\ LET r == requests[s]
           cache == IF r.outcome.kind = "thrown"
                    THEN onSettleFailure(verifiedPayments, Body(r.body))
                    ELSE onAfterSettle(verifiedPayments, Body(r.body))
       IN  /\ verifiedPayments' = cache
           /\ requests' = Supersede([requests EXCEPT ![s] =
                 IF r.outcome.kind = "thrown"
                 THEN [r EXCEPT !.pc = "admitted"]
                 ELSE [r EXCEPT !.pc = "done",
                                !.response =
                                   [kind |-> "json",
                                    success |-> (r.outcome.kind = "success"),
                                    errorReason |-> r.outcome.reason]]], cache, {})
           /\ consumed' = IF r.outcome.kind = "success" THEN consumed \cup {r.body}
                           ELSE consumed
    /\ UNCHANGED <<ledgerVars, lastTx, now, ticks, executed, passed, sideVars>>

\* The end of the settlement: onAfterSettle after a returned result,
\* onSettleFailure after a thrown error, then the response.
SettleFinish(s) ==
    /\ requests[s].pc = "executed"
    /\ LET r == requests[s]
           cache == IF r.outcome.kind = "thrown"
                    THEN onSettleFailure(verifiedPayments, Body(r.body))
                    ELSE onAfterSettle(verifiedPayments, Body(r.body))
       IN  /\ verifiedPayments' = cache
           /\ requests' = Supersede([requests EXCEPT ![s] =
                 [@ EXCEPT !.pc = "done",
                           !.response =
                              IF r.outcome.kind = "thrown"
                              THEN SettleCatch(r.outcome.reason, FALSE)
                              ELSE [kind |-> "json",
                                    success |-> (r.outcome.kind = "success"),
                                    errorReason |-> r.outcome.reason]]], cache, {})
           /\ consumed' = IF r.outcome.kind = "success" THEN consumed \cup {r.body}
                           ELSE consumed
    /\ UNCHANGED <<ledgerVars, lastTx, now, ticks, executed, passed, sideVars>>

\* POST /verify with a part of the body missing: answered with 400 before
\* facilitator.verify.
VerifyMalformed(name, part) ==
    IF IsMalformed(RequestBody(name, part))
    THEN UNCHANGED vars
    ELSE Verify(name)

\* POST /settle with a part of the body missing: answered with 400 before
\* facilitator.settle.
SettleMalformed(s, name, part) ==
    /\ requests[s].pc = "idle"
    /\ IF IsMalformed(RequestBody(name, part))
       THEN /\ requests' = [requests EXCEPT ![s] =
                  [IdleRequest EXCEPT !.pc = "refused", !.response = BadRequest]]
            /\ UNCHANGED <<ledgerVars, lastTx, now, ticks, verifiedPayments, executed,
                           consumed, passed, sideVars>>
       ELSE SettleRequest(s, name)

\* The connection closes and the slot takes the next request.
Close(s) ==
    /\ requests[s].pc \in {"done", "refused"}
    /\ requests' = [requests EXCEPT ![s] = IdleRequest]
    /\ UNCHANGED <<ledgerVars, lastTx, now, ticks, verifiedPayments, executed, consumed,
                    passed, sideVars>>

\* ------------------------------------------------------------------ facilitator properties

\* The step in which slot s takes a /settle request and runs onBeforeSettle.
Started(s) == requests[s].pc = "idle" /\ requests'[s].pc \in {"admitted", "done"}

OrderingError ==
    [kind |-> "json", success |-> FALSE,
     errorReason |-> "Payment must be verified before settlement"]

ExpiryError ==
    [kind |-> "json", success |-> FALSE,
     errorReason |-> "Payment verification expired (must settle within 5 minutes)"]

C8_UnverifiedNeverReachesLedger ==
    /\ [][\A s \in Slots :
            (Started(s) /\ ~MapHas(verifiedPayments, HashOf(requests'[s].body))) =>
               /\ requests'[s].pc = "done"
               /\ requests'[s].response = OrderingError
               /\ ~requests'[s].submitted
               /\ UNCHANGED <<ledgerVars, lastTx, executed, verifiedPayments>>]_vars
    /\ [](\A s \in Slots :
            requests[s].response = OrderingError =>
               (requests[s].pc = "done" /\ ~requests[s].submitted))

\* A settle request answered with the ordering error, its payload unrecorded
\* and the ledger untouched by it.
C8_Witness ==
    \E s \in Slots :
       /\ requests[s].pc = "done"
       /\ requests[s].response = OrderingError
       /\ ~requests[s].submitted
       /\ ~MapHas(verifiedPayments, HashOf(requests[s].body))
       /\ totalSupply > 0

\* C9: a settle of a recorded paymentHash is admitted exactly when
\* now - verifiedAt <= TTL; older, it ends with the expiry error, the ledger is
\* not invoked and the record is removed.
C9_TTLBoundary ==
    [][\A s \in Slots :
          LET h == HashOf(requests'[s].body)
          IN  (Started(s) /\ MapHas(verifiedPayments, h)) =>
                 IF now - verifiedPayments[h] <= TTL
                 THEN /\ requests'[s].pc = "admitted"
                      /\ UNCHANGED verifiedPayments
                 ELSE /\ requests'[s].pc = "done"
                      /\ requests'[s].response = ExpiryError
                      /\ ~requests'[s].submitted
                      /\ ~MapHas(verifiedPayments', h)
                      /\ UNCHANGED <<ledgerVars, lastTx, executed>>]_vars

\* A settle admitted when its verification was exactly TTL old.
C9_Witness ==
    \E s \in Slots :
       /\ requests[s].pc = "admitted"
       /\ MapHas(verifiedPayments, HashOf(requests[s].body))
       /\ now - verifiedPayments[HashOf(requests[s].body)] = TTL

\* C10: when an admitted settle attempt finishes, whatever its outcome, the
\* cache holds no record of its paymentHash.
C10_EvictedAfterAttempt ==
    [][\A s \in Slots :
          (requests[s].pc = "executed" /\ requests'[s].pc = "done") =>
             ~MapHas(verifiedPayments', HashOf(requests[s].body))]_vars

\* A settle attempt that threw has finished, and its payload has no record.
C10_Witness ==
    \E s \in Slots :
       /\ requests[s].pc = "done"
       /\ requests[s].outcome.kind = "thrown"
       /\ requests[s].response.kind = "http500"
       /\ ~MapHas(verifiedPayments, HashOf(requests[s].body))

\* C11 as stated: the ledger transition is invoked at most once under one
\* verification record.
C11_OneAttemptPerRecord ==
    \A s1, s2 \in Slots :
       (s1 # s2 /\ requests[s1].live /\ requests[s2].live
          /\ requests[s1].body = requests[s2].body) =>
          ~(requests[s1].submitted /\ requests[s2].submitted)

\* C11, amended: a record admits only settle requests that start before any
\* attempt it admitted has finished; every request it admitted is still in
\* flight while the record is in the cache, so overlapping requests are each
\* admitted and each invoke the ledger.
C11_AdmitsOnlyOverlapping ==
    \A s \in Slots :
       requests[s].live =>
          /\ requests[s].pc \in {"admitted", "executed"}
          /\ MapHas(verifiedPayments, HashOf(requests[s].body))

\* Two settle requests admitted by the same record, still in the cache, have
\* both invoked the ledger.
C11_Witness ==
    \E s1, s2 \in Slots :
       /\ s1 # s2
       /\ requests[s1].body = requests[s2].body
       /\ requests[s1].live /\ requests[s2].live
       /\ requests[s1].submitted /\ requests[s2].submitted
       /\ MapHas(verifiedPayments, HashOf(requests[s1].body))

\* C12: once a settlement of a payload has finished with success, a settle
\* request for it with no successful verify in between ends with the ordering
\* error and does not invoke the ledger.
C12_SettledIsTerminal ==
    [][\A s \in Slots :
          (Started(s) /\ requests'[s].body \in consumed) =>
             /\ requests'[s].pc = "done"
             /\ requests'[s].response = OrderingError
             /\ ~requests'[s].submitted
             /\ UNCHANGED <<ledgerVars, lastTx, executed>>]_vars

\* A settle of a payload already settled with success was answered with the
\* ordering error.
C12_Witness ==
    \E s \in Slots :
       /\ requests[s].pc = "done"
       /\ requests[s].body \in consumed
       /\ requests[s].response = OrderingError
       /\ authorizationState[<<Buyer, "n1">>]

\* The step in which an admitted attempt of slot s finishes.
Finished(s) == requests[s].pc = "executed" /\ requests'[s].pc = "done"

\* C13 as stated: a record is removed only when an attempt ends in success or
\* explicit failure; when the submission throws (ledger unreachable, timeout)
\* the record is kept.
C13_KeptOnAmbiguousOutcome ==
    [][\A s \in Slots :
          (Finished(s) /\ requests[s].outcome.kind = "thrown") =>
             (MapHas(verifiedPayments, HashOf(requests[s].body)) =>
                 MapHas(verifiedPayments', HashOf(requests[s].body)))]_vars

\* C13, amended: a record leaves the cache only when a settle attempt of its
\* payload finishes or when a settle request finds it older than the TTL; it
\* is removed after every finished attempt, a thrown submission included, so
\* the payload cannot be settled again without a new verify.
C13_EvictedOnEveryOutcome ==
    /\ [][\A p \in Payloads :
            (MapHas(verifiedPayments, HashOf(p)) /\ ~MapHas(verifiedPayments', HashOf(p))) =>
               \E s \in Slots :
                  /\ requests'[s].body = p
                  /\ \/ Finished(s)
                     \/ (Started(s) /\ requests'[s].response = ExpiryError)]_vars
    /\ [][\A s \in Slots :
            (Finished(s) /\ requests[s].outcome.kind = "thrown") =>
               /\ ~MapHas(verifiedPayments', HashOf(requests[s].body))
               /\ requests'[s].response.kind = "http500"]_vars

\* The ledger was unreachable for an admitted settle: the attempt finished, the
\* record is gone, and a retry of the payload got the ordering error.
C13_Witness ==
    \E s1, s2 \in Slots :
       /\ s1 # s2
       /\ requests[s1].pc = "done"
       /\ requests[s1].outcome = [kind |-> "thrown", reason |-> "ledger unreachable"]
       /\ requests[s2].body = requests[s1].body
       /\ requests[s2].response = OrderingError
       /\ ~MapHas(verifiedPayments, HashOf(requests[s1].body))

\* C14 as stated: a settle request that changed the ledger is answered with
\* success = true.
C14_MutationImpliesSuccess ==
    \A s \in Slots :
       (requests[s].pc = "done" /\ requests[s].mutated) => requests[s].response.success

\* C14, amended: a structured result with success = false implies that the
\* request changed nothing on the ledger and success = true that it did; a
\* request that changed the ledger is answered otherwise only with the HTTP 500
\* of a receipt wait that threw after the transaction was executed.
C14_StructuredFailureNoMutation ==
    \A s \in Slots :
       requests[s].pc = "done" =>
          /\ (requests[s].response.kind = "json" /\ ~requests[s].response.success) =>
                ~requests[s].mutated
          /\ requests[s].response.success => requests[s].mutated
          /\ (requests[s].mutated /\ ~requests[s].response.success) =>
                /\ requests[s].response.kind = "http500"
                /\ requests[s].outcome = [kind |-> "thrown", reason |-> "receipt timeout"]

\* The transfer was executed, the wait for its receipt threw, and the request
\* was answered with an HTTP 500.
C14_Witness ==
    \E s \in Slots :
       /\ requests[s].pc = "done"
       /\ requests[s].mutated
       /\ requests[s].response.kind = "http500"
       /\ balanceOf[Payee] > 0

Satisfies(st, paymentPayload, requirements) ==
    LET a == paymentPayload.authorization
    IN  /\ paymentPayload.scheme = requirements.scheme
        /\ paymentPayload.network = requirements.network
        /\ paymentPayload.asset = requirements.asset
        /\ a.value = requirements.amount
        /\ a.to = requirements.payTo
        /\ a.signature.len = 65 /\ SignedByAuthorizer(a)
        /\ st.balanceOf[a.from] >= a.value
        /\ ~st.authorizationState[<<a.from, a.nonce>>]

\* C16: verify answers isValid = true only when scheme, network, asset, amount
\* and payee match, the signature is the authorizer's, the balance covers the
\* amount and the nonce is unused; otherwise it answers isValid = false with a
\* reason.
C16_ValidOnlyIf ==
    \A p \in VerifyInputs :
       LET result == VerifyResult(Storage, Body(p), Requirement)
       IN  /\ result.isValid => Satisfies(Storage, Body(p), Requirement)
           /\ ~Satisfies(Storage, Body(p), Requirement) =>
                 (~result.isValid /\ result.invalidReason # "")

\* A payload recorded as verified satisfies every condition on the ledger as it
\* is, while a payload signed by another key is refused on the same ledger.
C16_Witness ==
    /\ MapHas(verifiedPayments, HashOf("long"))
    /\ Satisfies(Storage, Body("long"), Requirement)
    /\ VerifyResult(Storage, Body("forged"), Requirement) =
          [isValid |-> FALSE, invalidReason |-> "invalid_signature"]

CacheReasons == {OrderingError.errorReason, ExpiryError.errorReason}

LedgerErrors ==
    {"not yet valid", "authorization expired", "authorization used",
     "invalid signature length", "invalid v", "invalid signer", "invalid signature",
     "invalid recipient", "insufficient balance"}

\* C17: a settle rejected by the cache is answered with a structured result,
\* success = false and the ordering or the expiry reason; no settle that reached
\* the ledger stage is answered with either reason.
C17_CacheRejectionDistinct ==
    /\ [][\A s \in Slots :
            (Started(s) /\ requests'[s].pc = "done") =>
               /\ requests'[s].response \in {OrderingError, ExpiryError}
               /\ requests'[s].response.errorReason \notin LedgerErrors]_vars
    /\ [](\A s \in Slots :
            requests[s].outcome.kind # "none" =>
               /\ requests[s].response.errorReason \notin CacheReasons
               /\ requests[s].outcome.kind = "failure" =>
                     requests[s].outcome.reason \in LedgerErrors)

\* One settle was rejected as expired, another failed on the ledger: the two
\* answers are structured and carry different reasons.
C17_Witness ==
    \E s1, s2 \in Slots :
       /\ requests[s1].response = ExpiryError
       /\ requests[s2].pc = "done"
       /\ requests[s2].outcome.kind = "failure"
       /\ requests[s2].response.kind = "json"
       /\ requests[s2].response.errorReason \in LedgerErrors

\* C18: an admitted settle whose transaction reverted is answered with a
\* structured result, success = false, whose errorReason is the ledger's error.
C18_LedgerErrorSurfaced ==
    /\ [][\A s \in Slots :
            (requests[s].pc = "admitted" /\ requests'[s].submitted
               /\ lastTx'.status = "reverted" /\ requests'[s].outcome.kind # "thrown") =>
               requests'[s].outcome = [kind |-> "failure", reason |-> lastTx'.error]]_vars
    /\ [][\A s \in Slots :
            (Finished(s) /\ requests[s].outcome.kind = "failure") =>
               requests'[s].response =
                  [kind |-> "json", success |-> FALSE,
                   errorReason |-> requests[s].outcome.reason]]_vars

\* A settle submitted at validBefore was answered with the ledger's
\* "authorization expired".
C18_Witness ==
    \E s \in Slots :
       /\ requests[s].pc = "done"
       /\ requests[s].submitted
       /\ requests[s].response =
             [kind |-> "json", success |-> FALSE, errorReason |-> "authorization expired"]

\* C19: a verify or settle request lacking the payload or the requirement is
\* answered with the 400 error; the cache and the ledger are left as they were.
C19_MalformedRejectedEarly ==
    [][\A p \in Payloads, part \in Parts :
          /\ (verifiedPayments' # verifiedPayments /\ VerifyMalformed(p, part)) => FALSE
          /\ \A s \in Slots :
                (requests[s].pc = "idle" /\ requests'[s].pc # "idle"
                   /\ SettleMalformed(s, p, part)) =>
                   /\ requests'[s].pc = "refused"
                   /\ requests'[s].response = BadRequest
                   /\ ~requests'[s].submitted
                   /\ UNCHANGED <<ledgerVars, lastTx, executed, verifiedPayments>>]_vars

\* A settle request with a part missing was refused with 400 while the cache
\* holds a record and the buyer is funded.
C19_Witness ==
    \E s \in Slots :
       /\ requests[s].pc = "refused"
       /\ requests[s].response = BadRequest
       /\ MapHas(verifiedPayments, HashOf("long"))
       /\ balanceOf[Buyer] > 0

\* ------------------------------------------------------------------ signatures on the ledger

\* Another chain, and another deployment of the contract on this chain.
OtherChainId == ChainId + 1
OtherContract == "OtherUSDC"

\* The domain separator the constructor computes on chain chainid at address this.
DomainSeparatorOf(chainid, this) == <<"USDC", "2", chainid, this>>

ForeignDomains ==
    {DomainSeparatorOf(OtherChainId, ThisContract), DomainSeparatorOf(ChainId, OtherContract)}

\* The authorizations submitted: the buyer pays the payee 1, in a window open
\* from the start or in one that opens a second later.
SigWindows == {<<StartSec - 1, StartSec + 2>>, <<StartSec, StartSec + 2>>}

SigCalls == {Authorization(Buyer, Payee, 1, w, n) : w \in SigWindows, n \in Nonces}

\* The authorizations that differ from a in one field.
FieldAlterations(a) ==
    {[a EXCEPT !.from = Owner], [a EXCEPT !.to = Owner], [a EXCEPT !.value = a.value + 1],
     [a EXCEPT !.validAfter = a.validAfter + 1], [a EXCEPT !.validBefore = a.validBefore + 1],
     [a EXCEPT !.nonce = CHOOSE n \in Nonces : n # a.nonce]}

\* The values of the uint8 v, and of the last byte of a packed signature.
Bytes1 == {0, 1, 27, 28, 29}

\* The signatures submitted with a: the authorizer's own over a in this domain;
\* the authorizer's over a in a foreign domain; a signature over an authorization
\* that differs from a in one field; the authorizer's own with its last byte
\* changed; a short one; junk.
SignaturesFor(a) ==
    {Sign(a.from, Digest(DOMAIN_SEPARATOR, a))}
       \cup {Sign(a.from, Digest(d, a)) : d \in ForeignDomains}
       \cup {Sign(b.from, Digest(DOMAIN_SEPARATOR, b)) : b \in FieldAlterations(a)}
       \cup {[Sign(a.from, Digest(DOMAIN_SEPARATOR, a)) EXCEPT !.v = x] : x \in Bytes1}
       \cup {Truncated(Sign(a.from, Digest(DOMAIN_SEPARATOR, a))), JunkSignature}

\* The two overloads of transferWithAuthorization.
IsAuthorizedCall(tx) ==
    tx.fn \in {"transferWithAuthorization", "transferWithAuthorizationSplit"}

\* The signature of tx is the authorizer's own over the submitted fields, made
\* for another ledger instance.
SignedForOtherInstance(tx) ==
    \E d \in ForeignDomains : tx.args.signature = Sign(tx.args.from, Digest(d, tx.args))

SignatureErrors ==
    {"invalid signature length", "invalid v", "invalid signer", "invalid signature"}

\* C21 as stated: a call carrying a signature made for an instance of another
\* chain id or contract address fails with a signature error and changes no state.
C21_ForeignSignatureError ==
    (IsAuthorizedCall(lastTx) /\ SignedForOtherInstance(lastTx)) =>
       /\ lastTx.status = "reverted"
       /\ lastTx.error \in SignatureErrors
       /\ Storage = lastTx.pre

\* C21, amended: a call carrying a signature made for an instance of another
\* chain id or contract address never succeeds and changes no state; it fails
\* with "invalid signature" when the block time is inside the validity window
\* and the nonce is unused, and with the window's or the nonce's own error
\* otherwise, these being checked before the signature.
C21_ForeignSignatureRejected ==
    (IsAuthorizedCall(lastTx) /\ SignedForOtherInstance(lastTx)) =>
       /\ lastTx.status = "reverted"
       /\ Storage = lastTx.pre
       /\ lastTx.logs = <<>>
       /\ lastTx.error =
             IF ~(lastTx.timestamp > lastTx.args.validAfter) THEN "not yet valid"
             ELSE IF ~(lastTx.timestamp < lastTx.args.validBefore) THEN "authorization expired"
             ELSE IF lastTx.pre.authorizationState[AuthKey(lastTx)] THEN "authorization used"
             ELSE "invalid signature"

\* The funded buyer's authorization, signed for the other chain, was submitted
\* inside its window with an unused nonce and rejected with "invalid signature".
C21_Witness ==
    /\ IsAuthorizedCall(lastTx)
    /\ lastTx.args.signature =
          Sign(Buyer, Digest(DomainSeparatorOf(OtherChainId, ThisContract), lastTx.args))
    /\ InWindow(lastTx)
    /\ ~lastTx.pre.authorizationState[AuthKey(lastTx)]
    /\ lastTx.pre.balanceOf[Buyer] >= lastTx.args.value
    /\ lastTx.status = "reverted"
    /\ lastTx.error = "invalid signature"

\* The signature of tx is, byte for byte, the one the authorizer made over the
\* submitted fields.
CarriesSignatureAsMade(tx) ==
    tx.args.signature = Sign(tx.args.from, Digest(DOMAIN_SEPARATOR, tx.args))

\* The signature of tx recovers to the authorizer over the submitted fields.
RecoversToAuthorizer(tx) ==
    tx.args.signature.len = 65 /\ SignedByAuthorizer(tx.args)

\* C22 as stated: a call whose fields differ from those signed, or whose
\* signature was altered, never succeeds.
C22_AlteredNeverSucceeds ==
    (IsAuthorizedCall(lastTx) /\ ~CarriesSignatureAsMade(lastTx)) =>
       lastTx.status = "reverted"

\* C22, amended: a call succeeds only with a signature that recovers to the
\* authorizer over exactly the submitted fields; any other call fails and changes
\* no balance, nonce record or log, with a signature error when the block time is
\* inside the window and the nonce is unused, and with the window's or the nonce's
\* error otherwise. A signature altered only in its last byte, v written as 0 or 1
\* instead of 27 or 28, still recovers to the authorizer and is accepted.
C22_TamperedRejected ==
    IsAuthorizedCall(lastTx) =>
       /\ ~RecoversToAuthorizer(lastTx) =>
             /\ lastTx.status = "reverted"
             /\ Storage = lastTx.pre
             /\ lastTx.logs = <<>>
             /\ IF ~(lastTx.timestamp > lastTx.args.validAfter)
                THEN lastTx.error = "not yet valid"
                ELSE IF ~(lastTx.timestamp < lastTx.args.validBefore)
                THEN lastTx.error = "authorization expired"
                ELSE IF lastTx.pre.authorizationState[AuthKey(lastTx)]
                THEN lastTx.error = "authorization used"
                ELSE lastTx.error \in SignatureErrors
       /\ (/\ RecoversToAuthorizer(lastTx)
           /\ InWindow(lastTx)
           /\ ~lastTx.pre.authorizationState[AuthKey(lastTx)]
           /\ lastTx.args.to # Zero
           /\ lastTx.pre.balanceOf[lastTx.args.from] >= lastTx.args.value) =>
             lastTx.status = "success"

\* A signature made over a larger value than the submitted one was rejected
\* with "invalid signature" inside the window, the nonce unused, the buyer funded.
C22_Witness ==
    /\ IsAuthorizedCall(lastTx)
    /\ lastTx.args.signature =
          Sign(Buyer, Digest(DOMAIN_SEPARATOR,
                             [lastTx.args EXCEPT !.value = lastTx.args.value + 1,
                                                  !.signature = NoSignature]))
    /\ InWindow(lastTx)
    /\ ~lastTx.pre.authorizationState[AuthKey(lastTx)]
    /\ lastTx.pre.balanceOf[Buyer] > lastTx.args.value
    /\ lastTx.error = "invalid signature"
    /\ Storage = lastTx.pre

\* ------------------------------------------------------------------ workspace facilitator

\* A request body with both parts present.
Whole == "none"

WsParts == Parts \cup {Whole}

\* parsePaymentRequestBody: null when a part is missing, the two parts otherwise.
parsePaymentRequestBody(body) ==
    IF body.paymentPayload = Missing \/ body.paymentRequirements = Missing
    THEN [null |-> TRUE, paymentPayload |-> Missing, paymentRequirements |-> Missing]
    ELSE [null |-> FALSE, paymentPayload |-> body.paymentPayload,
          paymentRequirements |-> body.paymentRequirements]

\* POST /verify of the workspace facilitator: 400 for a null body, else the
\* result of facilitator.verify; the facilitator has no hooks and keeps nothing.
WsVerify(name, part) ==
    /\ LET parsedBody == parsePaymentRequestBody(RequestBody(name, part))
       IN  passed' =
              IF ~parsedBody.null
                 /\ VerifyResult(Storage, Body(parsedBody.paymentPayload), Requirement).isValid
              THEN passed \cup {parsedBody.paymentPayload}
              ELSE passed
    /\ UNCHANGED <<ledgerVars, lastTx, now, ticks, verifiedPayments, requests, executed,
                   consumed, sideVars>>

\* POST /settle of the workspace facilitator up to the first wait: 400 for a
\* null body, else facilitator.settle is called.
WsSettle(s, name, part) ==
    /\ requests[s].pc = "idle"
    /\ LET parsedBody == parsePaymentRequestBody(RequestBody(name, part))
       IN  requests' = [requests EXCEPT ![s] =
              IF parsedBody.null
              THEN [IdleRequest EXCEPT !.pc = "refused", !.response = BadRequest]
              ELSE [IdleRequest EXCEPT !.pc = "admitted",
                                       !.body = parsedBody.paymentPayload]]
    /\ UNCHANGED <<ledgerVars, lastTx, now, ticks, verifiedPayments, executed, consumed,
                   passed, sideVars>>

\* The end of /settle of the workspace facilitator: the result as JSON, or the
\* catch's HTTP 500.
WsSettleFinish(s) ==
    /\ requests[s].pc = "executed"
    /\ LET r == requests[s]
       IN  requests' = [requests EXCEPT ![s] =
              [r EXCEPT !.pc = "done",
                        !.response =
                           IF r.outcome.kind = "thrown"
                           THEN [kind |-> "http500", success |-> FALSE,
                                 errorReason |-> r.outcome.reason]
                           ELSE [kind |-> "json", success |-> (r.outcome.kind = "success"),
                                 errorReason |-> r.outcome.reason]]]
    /\ UNCHANGED <<ledgerVars, lastTx, now, ticks, verifiedPayments, executed, consumed,
                   passed, sideVars>>

\* C23: the /settle handler of the workspace facilitator never submits to the
\* ledger a payload that has not passed /verify on that facilitator before.
C23_WorkspaceEnforcesOrdering ==
    [][\A s \in Slots :
          (requests[s].pc = "admitted" /\ requests'[s].submitted) =>
             requests[s].body \in passed]_vars

\* C24: a successful transferWithAuthorization records exactly one
\* AuthorizationUsed(authorizer, nonce) event and exactly one
\* Transfer(from, to, value) event, updates the balances and marks the nonce
\* used; a failed call records no event.
C24_EventsOnSuccessOnly ==
    IsAuthorizedTransfer(lastTx) =>
       LET a == lastTx.args
       IN  /\ lastTx.status = "success" =>
                /\ lastTx.logs = <<AuthorizationUsedEvent(a.from, a.nonce),
                                   TransferEvent(a.from, a.to, a.value)>>
                /\ ~lastTx.pre.authorizationState[<<a.from, a.nonce>>]
                /\ authorizationState[<<a.from, a.nonce>>]
                /\ a.from # a.to =>
                      /\ balanceOf[a.from] = lastTx.pre.balanceOf[a.from] - a.value
                      /\ balanceOf[a.to] = lastTx.pre.balanceOf[a.to] + a.value
           /\ lastTx.status = "reverted" => lastTx.logs = <<>>
           /\ lastTx.status \in {"success", "reverted"}

\* A transfer of a positive value to another account succeeded and its receipt
\* carries the two events.
C24_Witness ==
    /\ IsAuthorizedTransfer(lastTx)
    /\ lastTx.status = "success"
    /\ lastTx.args.value > 0
    /\ lastTx.args.from # lastTx.args.to
    /\ Len(lastTx.logs) = 2
    /\ lastTx.logs[1].event = "AuthorizationUsed"
    /\ lastTx.logs[2].event = "Transfer"
    /\ balanceOf[lastTx.args.to] > 0

\* The record of payload p is older than the TTL.
Stale(p) ==
    /\ MapHas(verifiedPayments, HashOf(p))
    /\ now - verifiedPayments[HashOf(p)] > TTL

\* This step removes or rewrites the record of payload p.
Touched(p) ==
    \/ ~MapHas(verifiedPayments', HashOf(p))
    \/ verifiedPayments'[HashOf(p)] # verifiedPayments[HashOf(p)]

\* This step is a settle request for p that is rejected as expired and removes
\* the record.
RejectedAsExpired(p) ==
    \E s \in Slots :
       /\ Started(s)
       /\ requests'[s].body = p
       /\ requests'[s].response = ExpiryError
       /\ ~requests'[s].submitted
       /\ ~MapHas(verifiedPayments', HashOf(p))

\* This step is a successful verify of p that writes its record anew.
VerifiedAnew(p) ==
    /\ VerifyResult(Storage, Body(p), Requirement).isValid
    /\ verifiedPayments' = MapSet(verifiedPayments, HashOf(p), now)

\* C25 as stated: a record older than the TTL stays in the cache until the next
\* settle request for its paymentHash, which rejects and removes it, or until a
\* successful verify of the payload replaces it.
C25_StaysUntilNextSettle ==
    [][\A p \in Payloads :
          (Stale(p) /\ Touched(p)) => (RejectedAsExpired(p) \/ VerifiedAnew(p))]_vars

\* C25, amended: a record older than the TTL is removed by no timer and by no
\* operation on another paymentHash; it leaves the cache only through a settle
\* attempt for its own paymentHash: the next settle request rejects it as
\* expired and removes it, and an attempt admitted before the expiry removes it
\* when it finishes; a successful verify of the payload replaces it.
C25_LazyExpiry ==
    /\ [][\A p \in Payloads :
            (Stale(p) /\ Touched(p)) =>
               \/ RejectedAsExpired(p)
               \/ VerifiedAnew(p)
               \/ \E s \in Slots :
                     /\ Finished(s)
                     /\ requests[s].body = p
                     /\ ~MapHas(verifiedPayments', HashOf(p))]_vars
    /\ [][\A s \in Slots :
            (Started(s) /\ Stale(requests'[s].body)) =>
               RejectedAsExpired(requests'[s].body)]_vars

\* The record of one payload is older than the TTL and still in the cache after
\* a settle request for the other payload was rejected as expired.
C25_Witness ==
    /\ MapHas(verifiedPayments, HashOf("long"))
    /\ now - verifiedPayments[HashOf("long")] > TTL
    /\ \E s \in Slots :
          /\ requests[s].body = "short"
          /\ requests[s].response = ExpiryError
    /\ ~MapHas(verifiedPayments, HashOf("short"))

\* ------------------------------------------------------------------ requests in flight

\* POST /verify up to its wait: the body is complete and facilitator.verify is
\* called.
VerifyStart(s, name) ==
    /\ requests[s].pc = "idle"
    /\ requests' = [requests EXCEPT ![s] =
          [IdleRequest EXCEPT !.pc = "verifying", !.body = name]]
    /\ UNCHANGED <<ledgerVars, lastTx, now, ticks, verifiedPayments, executed, consumed,
                   passed, sideVars>>

\* POST /verify after its wait: facilitator.verify returned, onAfterVerify ran and
\* the result is sent; or it threw and the catch sends an HTTP 500.
VerifyReturn(s, throws) ==
    /\ requests[s].pc = "verifying"
    /\ LET name == requests[s].body
           result == VerifyResult(Storage, Body(name), Requirement)
           cache == IF throws THEN verifiedPayments
                    ELSE onAfterVerify(verifiedPayments, Body(name), result, now)
           valid == ~throws /\ result.isValid
       IN  /\ verifiedPayments' = cache
           /\ requests' = Supersede([requests EXCEPT ![s] =
                 [@ EXCEPT !.pc = "done",
                           !.response =
                              IF throws
                              THEN [kind |-> "http500", success |-> FALSE,
                                    errorReason |-> "ledger unreachable"]
                              ELSE [kind |-> "json", success |-> result.isValid,
                                    errorReason |-> result.invalidReason]]],
                 cache, IF valid THEN {HashOf(name)} ELSE {})
           /\ consumed' = IF valid THEN consumed \ {name} ELSE consumed
    /\ UNCHANGED <<ledgerVars, lastTx, now, ticks, executed, passed, sideVars>>

\* The ledger call of an admitted settlement returns or throws.
LedgerReturns(s) ==
    \/ \E throws \in BOOLEAN : SettleSubmit(s, throws)
    \/ SettleUnreachable(s)

\* The request of slot s waits for the ledger or for its continuation.
InFlight(s) == requests[s].pc \in {"verifying", "admitted", "executed"}

Responded(s) ==
    /\ requests[s].pc \in {"done", "refused"}
    /\ requests[s].response.kind # "none"

\* This step submits the transaction of the settle request of slot s.
Submits(s) ==
    /\ requests[s].pc = "admitted"
    /\ requests'[s].submitted
    /\ lastTx'.fn = "transferWithAuthorization"

\* C26: when every ledger call returns or throws, every verify and every settle
\* request in flight gets its response; a settle request submits to the ledger
\* at most once, and once its ledger call is over it is never submitted again.
C26_RespondsAndSubmitsOnce ==
    /\ \A s \in Slots : InFlight(s) ~> Responded(s)
    /\ [](\A s \in Slots : requests[s].pc \in {"done", "refused"} => Responded(s))
    /\ [][\A s \in Slots :
            /\ Submits(s) => ~requests[s].submitted
            /\ requests[s].pc = "executed" => requests'[s].pc \in {"executed", "done"}
            /\ requests[s].pc = "done" => requests'[s].pc \in {"done", "idle"}]_vars

\* A settle whose receipt wait threw after one submission was answered with an
\* HTTP 500, and a verify of the same payload was then answered with nonce_used.
C26_Witness ==
    \E s1, s2 \in Slots :
       /\ requests[s1].pc = "done"
       /\ requests[s1].submitted
       /\ requests[s1].outcome.kind = "thrown"
       /\ requests[s1].response.kind = "http500"
       /\ requests[s2].pc = "done"
       /\ requests[s2].body = requests[s1].body
       /\ requests[s2].response =
             [kind |-> "json", success |-> FALSE, errorReason |-> "nonce_used"]

\* ------------------------------------------------------------------ payer bridge, resource server, monitor

\* MONITOR_URL of a process: unset, the URL of a running monitor, or the URL of
\* one that fails.
Unconfigured == "unset"
Reachable == "reachable"
Failing == "failing"
MonitorModes == {Unconfigured, Reachable, Failing}

\* fetch to the monitor: resolves when it is reachable, throws otherwise.
fetch(monitorUrl, event) == [throws |-> monitorUrl # Reachable]

\* emitMonitorEvent without its try/catch: the promise rejects when fetch throws.
emitMonitorEventNoCatch(monitorUrl, event) ==
    IF monitorUrl = Unconfigured THEN [rejects |-> FALSE, delivered |-> {}]
    ELSE IF fetch(monitorUrl, event).throws THEN [rejects |-> TRUE, delivered |-> {}]
    ELSE [rejects |-> FALSE, delivered |-> {event}]

\* emitMonitorEvent: returns at once without a URL; otherwise posts the event and
\* swallows the error of a failed post. The promise it returns never rejects.
emitMonitorEvent(monitorUrl, event) ==
    IF monitorUrl = Unconfigured THEN [rejects |-> FALSE, delivered |-> {}]
    ELSE IF fetch(monitorUrl, event).throws THEN [rejects |-> FALSE, delivered |-> {}]
    ELSE [rejects |-> FALSE, delivered |-> {event}]

\* void emitMonitorEvent(...) for each of events, in a handler whose state is f:
\* the promises are dropped; one that rejected is an unhandled rejection, which
\* ends the process.
Emit(f, monitorUrl, events) ==
    [f EXCEPT !.delivered = @ \cup UNION {emitMonitorEvent(monitorUrl, e).delivered : e \in events},
              !.crashed = @ \/ \E e \in events : emitMonitorEvent(monitorUrl, e).rejects]

NoResult == [kind |-> "none", data |-> "", txHash |-> "", error |-> ""]

IdleFlow ==
    [monitor |-> [bridge |-> Unconfigured, server |-> Unconfigured], pc |-> "idle",
     city |-> "", initialStatus |-> 0, paidStatus |-> 0, paymentResponse |-> "",
     result |-> NoResult, delivered |-> {}, crashed |-> FALSE]

Cities == {"", "Paris"}

\* The /weather handler's report.
Report(city) == IF city = "" THEN "Guangzhou: sunny" ELSE "Paris: sunny"

\* The tool handler up to its first request.
BridgeStart(f, city) ==
    Emit([f EXCEPT !.pc = "initial_sent", !.city = city], f.monitor.bridge,
         {"chat.user_message.received", "assistant.intent.resolved",
          "assistant.tool_call.planned", "mcp.tool_call.started",
          "x402.http.initial_request.sent"})

\* The resource server on the request without a payment signature: its first
\* middleware emits nothing and the answer has the given status.
ServerInitial(f, status) ==
    [f EXCEPT !.pc = "initial_answered", !.initialStatus = status]

\* The tool handler after the first answer: on 402 it builds the payment and
\* sends the request again; on 2xx it returns the data; else it throws.
BridgeAfterInitial(f) ==
    IF f.initialStatus = 402
    THEN Emit([f EXCEPT !.pc = "paid_sent"], f.monitor.bridge,
              {"x402.http.402_received", "x402.payment_required.decoded",
               "x402.payment_requirement.selected", "x402.payment_payload.created",
               "x402.http.retry_with_payment_signature.sent"})
    ELSE IF f.initialStatus >= 200 /\ f.initialStatus < 300
    THEN Emit([f EXCEPT !.pc = "done",
                        !.result = [kind |-> "content", data |-> Report(f.city),
                                    txHash |-> "", error |-> ""]],
              f.monitor.bridge,
              {"mcp.tool_call.completed", "assistant.explanation.generated",
               "chat.assistant_message.sent"})
    ELSE Emit([f EXCEPT !.pc = "done",
                        !.result = [kind |-> "error", data |-> "", txHash |-> "",
                                    error |-> "Unexpected status code from resource server"]],
              f.monitor.bridge, {"mcp.tool_call.completed"})

\* The resource server on the request with the payment signature: its first
\* middleware emits, the payment middleware has the payment settled, and on
\* success the /weather handler emits and sends the report.
ServerPaid(f, settled) ==
    LET received == Emit(f, f.monitor.server, {"x402.server.payment_signature.received"})
    IN  IF settled
        THEN Emit([received EXCEPT !.pc = "paid_answered", !.paidStatus = 200,
                                   !.paymentResponse = "tx"],
                  f.monitor.server, {"x402.resource.execution.succeeded"})
        ELSE [received EXCEPT !.pc = "paid_answered", !.paidStatus = 402]

\* The tool handler after the second answer: not 200 throws; else the payment
\* response is decoded and the data returned with the transaction hash.
BridgeAfterPaid(f) ==
    IF f.paidStatus # 200
    THEN Emit([f EXCEPT !.pc = "done",
                        !.result = [kind |-> "error", data |-> "", txHash |-> "",
                                    error |-> "Payment retry failed with status"]],
              f.monitor.bridge, {"mcp.tool_call.completed"})
    ELSE Emit([f EXCEPT !.pc = "done",
                        !.result = [kind |-> "content", data |-> Report(f.city),
                                    txHash |-> f.paymentResponse, error |-> ""]],
              f.monitor.bridge,
              {"x402.http.200_with_payment_response.received",
               "x402.payment_response.decoded", "mcp.tool_call.completed",
               "assistant.explanation.generated", "chat.assistant_message.sent"})

FlowFrame == UNCHANGED <<ledgerVars, lastTx, now, ticks, executed, verifiedPayments, requests,
                         consumed, passed, startAll, calldata,
                         against, monitor>>

ToolCall(bridgeMonitor, serverMonitor, city) ==
    /\ flow.pc = "idle"
    /\ flow' = BridgeStart([flow EXCEPT !.monitor = [bridge |-> bridgeMonitor,
                                                      server |-> serverMonitor]], city)
    /\ FlowFrame

InitialRequest(status) ==
    /\ flow.pc = "initial_sent" /\ ~flow.crashed
    /\ flow' = ServerInitial(flow, status)
    /\ FlowFrame

AfterInitial ==
    /\ flow.pc = "initial_answered" /\ ~flow.crashed
    /\ flow' = BridgeAfterInitial(flow)
    /\ FlowFrame

\* The payment middleware settles through the facilitator, which submits the
\* buyer's authorization to the ledger.
PaidRequest ==
    /\ flow.pc = "paid_sent" /\ ~flow.crashed
    /\ LET a == Body("long").authorization
           result == TransferWithAuthorization_(Storage, BlockTimestamp(now), a)
       IN  /\ Execute("transferWithAuthorization", Facilitator, a, result)
           /\ flow' = ServerPaid(flow, result.status = "success")
    /\ UNCHANGED <<now, ticks, verifiedPayments, requests, consumed, passed, startAll, calldata,
                         against, monitor>>

AfterPaid ==
    /\ flow.pc = "paid_answered" /\ ~flow.crashed
    /\ flow' = BridgeAfterPaid(flow)
    /\ FlowFrame

\* The tool call is over; the next one may come.
FlowClose ==
    /\ flow.pc = "done"
    /\ flow' = IdleFlow
    /\ FlowFrame

\* What the caller of the tool and the client of the resource server see of a
\* flow: everything but the monitor's configuration and what it received.
Visible(f) == [f EXCEPT !.monitor = IdleFlow.monitor, !.delivered = {}]

WithMonitor(f, b, s) == [f EXCEPT !.monitor = [bridge |-> b, server |-> s]]

\* The result of a finished tool call, from the request and the two answers.
ExpectedResult(city, initialStatus, paidStatus) ==
    IF initialStatus = 402
    THEN IF paidStatus = 200
         THEN [kind |-> "content", data |-> Report(city), txHash |-> "tx", error |-> ""]
         ELSE [kind |-> "error", data |-> "", txHash |-> "",
               error |-> "Payment retry failed with status"]
    ELSE IF initialStatus >= 200 /\ initialStatus < 300
    THEN [kind |-> "content", data |-> Report(city), txHash |-> "", error |-> ""]
    ELSE [kind |-> "error", data |-> "", txHash |-> "",
          error |-> "Unexpected status code from resource server"]

\* C27: the monitor cannot influence payment outcomes. No handler is ended by
\* an emitMonitorEvent; every step of the payer bridge and of the resource server
\* gives the same visible result whether the monitor is unconfigured, reachable
\* or failing; a finished tool call returns what the request and the answers
\* determine; and the ledger is what the submitted authorization alone makes it.
C27_MonitorCannotInfluence ==
    /\ ~flow.crashed
    /\ \A b, s \in MonitorModes :
          /\ \A city \in Cities :
                Visible(BridgeStart(WithMonitor(flow, b, s), city)) =
                   Visible(BridgeStart(flow, city))
          /\ Visible(BridgeAfterInitial(WithMonitor(flow, b, s))) =
                Visible(BridgeAfterInitial(flow))
          /\ \A settled \in BOOLEAN :
                Visible(ServerPaid(WithMonitor(flow, b, s), settled)) =
                   Visible(ServerPaid(flow, settled))
          /\ Visible(BridgeAfterPaid(WithMonitor(flow, b, s))) =
                Visible(BridgeAfterPaid(flow))
    /\ flow.pc = "done" =>
          flow.result = ExpectedResult(flow.city, flow.initialStatus, flow.paidStatus)
    /\ flow.pc = "paid_answered" =>
          /\ IsAuthorizedTransfer(lastTx)
          /\ flow.paidStatus = IF lastTx.status = "success" THEN 200 ELSE 402
          /\ Storage = Commit(lastTx.pre,
                TransferWithAuthorization_(lastTx.pre, lastTx.timestamp, lastTx.args))
    /\ flow.delivered # {} => Reachable \in {flow.monitor.bridge, flow.monitor.server}

\* A tool call finished with the paid data and the transaction hash, the payee
\* credited, while the monitor of both processes was failing.
C27_Witness ==
    /\ flow.pc = "done"
    /\ flow.monitor = [bridge |-> Failing, server |-> Failing]
    /\ flow.result.kind = "content"
    /\ flow.result.txHash = "tx"
    /\ flow.delivered = {}
    /\ balanceOf[Payee] > 0

\* ------------------------------------------------------------------ the split overload

\* The 64 bytes r || s of a signature.
RS(sig) == [key |-> sig.key, digest |-> sig.digest, parity |-> sig.parity]

NoCalldata == [v |-> 0, r_s |-> RS(NoSignature)]

\* A packing that leaves out the byte of v.
abi_encodePackedShort(r_s, v) ==
    [len |-> 64, key |-> r_s.key, digest |-> r_s.digest, parity |-> r_s.parity, v |-> 0]

\* abi.encodePacked(r, s, bytes1(v)): 32 + 32 + 1 bytes.
abi_encodePacked(r_s, v) ==
    [len |-> 65, key |-> r_s.key, digest |-> r_s.digest, parity |-> r_s.parity, v |-> v]

\* transferWithAuthorization(from, to, value, validAfter, validBefore, nonce, v, r, s).
transferWithAuthorizationSplit(sender, a, v, r_s) ==
    /\ UNCHANGED <<now, ticks, verifiedPayments, requests, consumed, passed, flow, startAll,
                 against, monitor>>
    /\ calldata' = [v |-> v, r_s |-> r_s]
    /\ LET sig == abi_encodePacked(r_s, v)
       IN  Execute("transferWithAuthorizationSplit", sender, [a EXCEPT !.signature = sig],
                   TransferWithAuthorization_(Storage, BlockTimestamp(now),
                                              [a EXCEPT !.signature = sig]))

\* The signatures whose r and s are passed to the split overload: the
\* authorizer's own, the authorizer's for the other chain, junk.
SplitSignatures(a) ==
    {Sign(a.from, Digest(DOMAIN_SEPARATOR, a)),
     Sign(a.from, Digest(DomainSeparatorOf(OtherChainId, ThisContract), a)),
     JunkSignature}

\* The run of the packed overload on the storage and at the time of tx, with the
\* fields of tx and the 65 bytes r || s || v.
PackedRun(tx, r_s, v) ==
    TransferWithAuthorization_(tx.pre, tx.timestamp,
        [tx.args EXCEPT !.signature =
            [len |-> 65, key |-> r_s.key, digest |-> r_s.digest, parity |-> r_s.parity,
             v |-> v]])

\* C30: a call of the split overload with (v, r, s) ends as the packed overload
\* does with the 65 bytes r || s || v on the same storage at the same time: the
\* same status and error, the same events, the same storage afterwards.
C30_SplitSameAsPacked ==
    lastTx.fn = "transferWithAuthorizationSplit" =>
       LET packed == PackedRun(lastTx, calldata.r_s, calldata.v)
       IN  /\ lastTx.status = packed.status
           /\ lastTx.error = packed.error
           /\ lastTx.logs = IF packed.status = "success" THEN packed.logs ELSE <<>>
           /\ Storage = Commit(lastTx.pre, packed)

\* A split call with the authorizer's r, s and v = 0 moved the payment.
C30_Witness ==
    /\ lastTx.fn = "transferWithAuthorizationSplit"
    /\ lastTx.status = "success"
    /\ calldata.v = 0
    /\ calldata.r_s.key = Buyer
    /\ balanceOf[Payee] = lastTx.pre.balanceOf[Payee] + 1

\* ------------------------------------------------------------------ start-all

\* Strings of the start-all script are sequences of characters.
Whitespace == {" ", "\n"}

trim(s) ==
    LET keep == {i \in DOMAIN s : s[i] \notin Whitespace}
    IN  IF keep = {} THEN <<>>
        ELSE SubSeq(s, CHOOSE i \in keep : \A j \in keep : i <= j,
                       CHOOSE i \in keep : \A j \in keep : j <= i)

toLowerCase(s) ==
    [i \in DOMAIN s |->
        CASE s[i] = "A" -> "a" [] s[i] = "B" -> "b" [] s[i] = "C" -> "c"
          [] s[i] = "D" -> "d" [] s[i] = "E" -> "e" [] s[i] = "F" -> "f"
          [] OTHER -> s[i]]

\* What `cast wallet address` prints for the keys of a run: an address in
\* mixed case followed by a newline.
CastOutputs ==
    {<<"0", "x", "A", "b", "\n">>, <<"0", "x", "a", "B", "\n">>,
     <<"0", "x", "C", "d", "\n">>, <<"0", "x", "E", "f", "\n">>}

\* runCapture: the trimmed stdout of a command that exited with status 0.
runCapture(stdout) == trim(stdout)

\* normalizeAddress without the lower-casing.
normalizeAddressExact(address) == trim(address)

normalizeAddress(address) == toLowerCase(trim(address))

\* assertDistinctRoleAddresses over the entries buyerAddress, facilitatorAddress,
\* payeeAddress in that order: an entry whose normalized address is empty is
\* skipped; the first entry whose normalized address was seen before throws.
assertDistinctRoleAddresses(addresses) ==
    LET normalized == [i \in DOMAIN addresses |-> normalizeAddress(addresses[i])]
        conflicts == {i \in DOMAIN addresses :
                         /\ normalized[i] # <<>>
                         /\ \E j \in 1..(i - 1) : normalized[j] = normalized[i]}
    IN  [throws |-> conflicts # {}]

ServiceNames == <<"anvil", "monitor", "facilitator", "express">>

Running == 0 - 1

StartAllInit ==
    [pc |-> [at |-> "prerequisites", service |-> ""],
     addresses |-> <<>>, started |-> <<>>, ready |-> {},
     deployed |-> FALSE, minted |-> FALSE, addressFiles |-> FALSE,
     stateWritten |-> FALSE, exitCode |-> Running, error |-> ""]

\* main().catch(error => fail(...)): the message is logged and the process
\* exits with status 1.
fail(st, message) ==
    [st EXCEPT !.pc = [at |-> "exited", service |-> ""], !.exitCode = 1, !.error = message]

\* What main does after a service was found ready.
AfterService(name) ==
    CASE name = "anvil" -> [at |-> "deploy", service |-> ""]
      [] name = "monitor" -> [at |-> "start", service |-> "facilitator"]
      [] name = "facilitator" -> [at |-> "start", service |-> "express"]
      [] name = "express" -> [at |-> "state", service |-> ""]

\* A readiness wait whose result main does not look at.
AfterReadinessIgnore(st, name, ready) ==
    [st EXCEPT !.pc = AfterService(name),
               !.ready = IF ready THEN @ \cup {name} ELSE @]

\* The result of waitForPort / waitForHttpStatus for a service: main throws
\* when the service is not ready in time.
AfterReadiness(st, name, ready) ==
    IF ready
    THEN [st EXCEPT !.pc = AfterService(name), !.ready = @ \cup {name}]
    ELSE fail(st, "did not start")

StartAllFrame == UNCHANGED <<ledgerVars, lastTx, now, ticks, executed, verifiedPayments,
                             requests, consumed, passed, flow, calldata,
                             against, monitor>>

\* mkdir, ensureCommand for node, pnpm, anvil, forge and cast, the cleanup of
\* old processes, ensurePortsFree, the optional bootstrap and the buyer's key.
Prerequisites(ok) ==
    /\ startAll.pc.at = "prerequisites"
    /\ startAll' = IF ok THEN [startAll EXCEPT !.pc = [at |-> "addresses", service |-> ""]]
                   ELSE fail(startAll, "prerequisite")
    /\ StartAllFrame

\* The three `cast wallet address` calls and assertDistinctRoleAddresses.
DeriveAddresses(buyerOut, facilitatorOut, payeeOut) ==
    /\ startAll.pc.at = "addresses"
    /\ LET addresses == <<runCapture(buyerOut), runCapture(facilitatorOut),
                          runCapture(payeeOut)>>
           derived == [startAll EXCEPT !.addresses = addresses]
       IN  startAll' = IF assertDistinctRoleAddresses(addresses).throws
                       THEN fail(derived, "Address conflict")
                       ELSE [derived EXCEPT !.pc = [at |-> "start", service |-> "anvil"]]
    /\ StartAllFrame

\* startDetachedService: throws when the child has no pid.
StartService(name, spawned) ==
    /\ startAll.pc = [at |-> "start", service |-> name]
    /\ startAll' = IF spawned
                   THEN [startAll EXCEPT !.started = Append(@, name),
                                         !.pc = [at |-> "wait", service |-> name]]
                   ELSE fail(startAll, "Failed to spawn")
    /\ StartAllFrame

WaitReady(name, ready) ==
    /\ startAll.pc = [at |-> "wait", service |-> name]
    /\ startAll' = AfterReadiness(startAll, name, ready)
    /\ StartAllFrame

\* forge create, parseDeployedAddress, cast send mint, and the address files.
DeployAndMint(created, parsed, minted) ==
    /\ startAll.pc.at = "deploy"
    /\ startAll' =
          IF ~created THEN fail(startAll, "forge create failed")
          ELSE IF ~parsed
          THEN fail([startAll EXCEPT !.deployed = TRUE], "Failed to parse LocalUSDC address")
          ELSE IF ~minted
          THEN fail([startAll EXCEPT !.deployed = TRUE], "cast send failed")
          ELSE [startAll EXCEPT !.deployed = TRUE, !.minted = TRUE, !.addressFiles = TRUE,
                                !.pc = [at |-> "start", service |-> "monitor"]]
    /\ StartAllFrame

\* services.state.json is written and main returns.
WriteState ==
    /\ startAll.pc.at = "state"
    /\ startAll' = [startAll EXCEPT !.stateWritten = TRUE, !.exitCode = 0,
                                    !.pc = [at |-> "exited", service |-> ""]]
    /\ StartAllFrame

ServiceStarted(name) == \E i \in DOMAIN startAll.started : startAll.started[i] = name

\* C28: the services are started in the order anvil, monitor, facilitator,
\* resource server, each only after the one before it passed its readiness
\* check; the token is deployed and minted after anvil is ready and before the
\* facilitator starts; and once a readiness check has failed no service is
\* started and the services state file is not written.
C28_StartOrder ==
    /\ [](/\ startAll.started = SubSeq(ServiceNames, 1, Len(startAll.started))
          /\ ServiceStarted("monitor") => "anvil" \in startAll.ready
          /\ ServiceStarted("facilitator") => "monitor" \in startAll.ready
          /\ ServiceStarted("express") => "facilitator" \in startAll.ready
          /\ startAll.deployed => "anvil" \in startAll.ready
          /\ startAll.minted => startAll.deployed
          /\ ServiceStarted("facilitator") => startAll.deployed /\ startAll.minted
          /\ startAll.stateWritten => startAll.ready = {"anvil", "monitor", "facilitator", "express"})
    /\ [][/\ (startAll.pc.at = "wait" /\ startAll.pc.service \notin startAll'.ready) =>
               /\ startAll'.exitCode = 1
               /\ startAll'.started = startAll.started
               /\ ~startAll'.stateWritten
          /\ startAll.exitCode = 1 => startAll' = startAll]_vars

\* The facilitator was found not ready: anvil and the monitor are ready, the
\* token is minted, the resource server was not started and no state is written.
C28_Witness ==
    /\ startAll.exitCode = 1
    /\ startAll.started = <<"anvil", "monitor", "facilitator">>
    /\ startAll.ready = {"anvil", "monitor"}
    /\ startAll.minted
    /\ ~startAll.stateWritten

SameAddress(x, y) == toLowerCase(trim(x)) = toLowerCase(trim(y))

RolesCollide(addresses) ==
    \E i, j \in DOMAIN addresses : i # j /\ SameAddress(addresses[i], addresses[j])

\* C29: whenever two of the three derived addresses are equal after trimming
\* and lower-casing, start-all has exited with an error and started no service;
\* so wherever a service was started the three roles have pairwise different
\* addresses.
C29_DistinctRoles ==
    /\ (startAll.addresses # <<>> /\ RolesCollide(startAll.addresses)) =>
          /\ startAll.exitCode = 1
          /\ startAll.error = "Address conflict"
          /\ startAll.started = <<>>
    /\ startAll.started # <<>> =>
          /\ Len(startAll.addresses) = 3
          /\ ~RolesCollide(startAll.addresses)

\* The buyer's and the payee's addresses differ in case only, and the run was
\* aborted with no service started.
C29_Witness ==
    /\ startAll.exitCode = 1
    /\ startAll.error = "Address conflict"
    /\ startAll.started = <<>>
    /\ Len(startAll.addresses) = 3
    /\ startAll.addresses[1] # startAll.addresses[3]
    /\ SameAddress(startAll.addresses[1], startAll.addresses[3])
    /\ ~SameAddress(startAll.addresses[1], startAll.addresses[2])

\* ------------------------------------------------------------------ the recovery identifier

\* The values of a uint8, and the lengths in bytes of the signatures submitted.
Uint8 == 0 .. 255
SignatureLengths == {0, 64, 65, 66}

\* The signatures submitted with a: r, s of the authorizer's own or junk, in
\* every length of SignatureLengths, with every byte as v.
RecoverInputs(a) ==
    {[len |-> l, key |-> sig.key, digest |-> sig.digest, parity |-> sig.parity, v |-> v] :
        l \in SignatureLengths, v \in Uint8,
        sig \in {Sign(a.from, Digest(DOMAIN_SEPARATOR, a)), JunkSignature}}

\* C31: in a call that reaches the recovery, a signature not 65 bytes long is
\* rejected for its length whatever its v and content; of the 65-byte ones every
\* v outside {0, 1, 27, 28} is rejected as invalid, v in {0, 1} ends exactly as
\* the same signature with v + 27 does, and the sum stays below 2^8.
C31_RecoveryIdentifier ==
    (IsAuthorizedTransfer(lastTx) /\ InWindow(lastTx)
        /\ ~lastTx.pre.authorizationState[AuthKey(lastTx)]) =>
       LET sig == lastTx.args.signature
       IN  /\ sig.len # 65 =>
                lastTx.status = "reverted" /\ lastTx.error = "invalid signature length"
           /\ (sig.len = 65 /\ sig.v \notin {0, 1, 27, 28}) =>
                lastTx.status = "reverted" /\ lastTx.error = "invalid v"
           /\ (sig.len = 65 /\ sig.v < 27) => sig.v + 27 < 256
           /\ (sig.len = 65 /\ sig.v \in {0, 1}) =>
                LET same == TransferWithAuthorization_(lastTx.pre, lastTx.timestamp,
                               [lastTx.args EXCEPT !.signature.v = sig.v + 27])
                IN  /\ lastTx.status = same.status
                    /\ lastTx.error = same.error
                    /\ lastTx.logs = IF same.status = "success" THEN same.logs ELSE <<>>
                    /\ Storage = Commit(lastTx.pre, same)

\* The authorizer's signature with v = 0 was accepted and the payment made.
C31_Witness ==
    /\ IsAuthorizedTransfer(lastTx)
    /\ lastTx.args.signature.len = 65
    /\ lastTx.args.signature.v = 0
    /\ lastTx.status = "success"
    /\ balanceOf[Payee] = lastTx.pre.balanceOf[Payee] + 1

\* ------------------------------------------------------------------ records of other payloads

\* This step adds, removes or rewrites the record of the body named name.
RecordChanged(name) ==
    \/ MapHas(verifiedPayments, HashOf(name)) # MapHas(verifiedPayments', HashOf(name))
    \/ /\ MapHas(verifiedPayments, HashOf(name))
       /\ MapHas(verifiedPayments', HashOf(name))
       /\ verifiedPayments'[HashOf(name)] # verifiedPayments[HashOf(name)]

\* This step is a verify or a settle step of the body named name.
OperatesOn(name) ==
    \/ \E s \in Slots : Started(s) /\ requests'[s].body = name
    \/ \E s \in Slots : Finished(s) /\ requests[s].body = name
    \/ VerifiedAnew(name)

\* C32: a step that changes the cache is a verify or settle step of one payload
\* and changes the record of that payload only; the record of every other
\* payload stays as it is, and with it the answer onBeforeSettle would give a
\* settle of that other payload.
C32_OtherRecordsUntouched ==
    [][verifiedPayments' # verifiedPayments =>
          \E name \in VerifyInputs :
             /\ OperatesOn(name)
             /\ \A other \in VerifyInputs \ {name} :
                   /\ ~RecordChanged(other)
                   /\ onBeforeSettle(verifiedPayments', Body(other), now).abort =
                         onBeforeSettle(verifiedPayments, Body(other), now).abort]_vars

\* A settlement of one payload went through and removed its record while the
\* record of the other payload is still in the cache.
C32_Witness ==
    \E s \in Slots :
       /\ requests[s].pc = "done"
       /\ requests[s].body = "long"
       /\ requests[s].response.success
       /\ ~MapHas(verifiedPayments, HashOf("long"))
       /\ MapHas(verifiedPayments, HashOf("short"))

\* ------------------------------------------------------------------ the direct transfer

\* C33: transfer(to, amount) by a caller succeeds exactly when `to` is not the
\* zero address and the caller's balance covers amount; then the caller's
\* balance is down by amount, that of `to` up by amount, every other balance,
\* every nonce record, totalSupply and the owner as before; otherwise it fails
\* and storage is as before.
C33_DirectTransferFrame ==
    lastTx.fn = "transfer" =>
       LET caller == lastTx.sender
           to == lastTx.args.to
           amount == lastTx.args.value
           pre == lastTx.pre
       IN  IF to # Zero /\ pre.balanceOf[caller] >= amount
           THEN /\ lastTx.status = "success"
                /\ \A x \in Addresses :
                      balanceOf[x] = pre.balanceOf[x]
                                       - (IF x = caller THEN amount ELSE 0)
                                       + (IF x = to THEN amount ELSE 0)
                /\ authorizationState = pre.authorizationState
                /\ totalSupply = pre.totalSupply
                /\ owner = pre.owner
           ELSE /\ lastTx.status = "reverted"
                /\ lastTx.error = IF to = Zero THEN "invalid recipient"
                                  ELSE "insufficient balance"
                /\ Storage = pre

\* The buyer sent 1 to the payee directly.
C33_Witness ==
    /\ lastTx.fn = "transfer"
    /\ lastTx.status = "success"
    /\ lastTx.sender = Buyer
    /\ lastTx.args.to = Payee
    /\ lastTx.args.value = 1
    /\ balanceOf[Buyer] = lastTx.pre.balanceOf[Buyer] - 1
    /\ balanceOf[Payee] = lastTx.pre.balanceOf[Payee] + 1

\* ------------------------------------------------------------------ requirements of a request

\* The requirements a request may carry: the resource's own, and one asking
\* twice the amount.
Requirements == {Requirement, [Requirement EXCEPT !.amount = 2 * Requirement.amount]}

NoRequirement == [scheme |-> "", network |-> "", asset |-> "", amount |-> 0, payTo |-> Zero]

\* Never == the time of a verification that has not happened.
Never == 0 - 1

\* For each body: the requirement and the time of its last successful verify,
\* whether a settle attempt of it was in flight when that verify returned, and
\* whether a settle request for it was issued since. For each slot: the
\* requirement of its settle request.
NoneAgainst ==
    [verified |-> [name \in VerifyInputs |-> NoRequirement],
     at |-> [name \in VerifyInputs |-> Never],
     inflight |-> [name \in VerifyInputs |-> FALSE],
     issued |-> [name \in VerifyInputs |-> FALSE],
     settle |-> [s \in Slots |-> NoRequirement]]

\* POST /verify with paymentRequirements: facilitator.verify against them, then
\* the onAfterVerify hook, which reads the payload and the result only.
VerifyAgainst(name, paymentRequirements) ==
    /\ LET result == VerifyResult(Storage, Body(name), paymentRequirements)
           cache == onAfterVerify(verifiedPayments, Body(name), result, now)
       IN  /\ verifiedPayments' = cache
           /\ requests' = Supersede(requests, cache,
                 IF result.isValid THEN {HashOf(name)} ELSE {})
           /\ consumed' = IF result.isValid THEN consumed \ {name} ELSE consumed
           /\ against' = IF result.isValid
                         THEN [against EXCEPT
                                 !.verified[name] = paymentRequirements,
                                 !.at[name] = now,
                                 !.inflight[name] =
                                    \E s \in Slots : /\ requests[s].pc \in {"admitted", "executed"}
                                                     /\ requests[s].body = name,
                                 !.issued[name] = FALSE]
                         ELSE against
    /\ UNCHANGED <<ledgerVars, lastTx, now, ticks, executed, passed, flow, startAll,
                   calldata, monitor>>

\* A /settle that admits a payload only with the requirement it was verified
\* against.
SettleAgainstSame(s, name, paymentRequirements) ==
    /\ requests[s].pc = "idle"
    /\ LET before == onBeforeSettle(verifiedPayments, Body(name), now)
           abort == before.abort \/ against.verified[name] # paymentRequirements
       IN  /\ verifiedPayments' = before.cache
           /\ requests' = Supersede([requests EXCEPT ![s] =
                 IF abort
                 THEN [IdleRequest EXCEPT !.pc = "done", !.body = name,
                          !.response = SettleCatch(OrderingError.errorReason, TRUE)]
                 ELSE [IdleRequest EXCEPT !.pc = "admitted", !.body = name,
                          !.live = TRUE]], before.cache, {})
    /\ against' = [against EXCEPT !.settle[s] = paymentRequirements, !.issued[name] = TRUE]
    /\ UNCHANGED <<ledgerVars, lastTx, now, ticks, executed, consumed, passed, flow,
                   startAll, calldata, monitor>>

\* POST /settle with paymentRequirements, up to the first wait: the
\* onBeforeSettle hook, which reads the payload only.
SettleAgainst(s, name, paymentRequirements) ==
    /\ requests[s].pc = "idle"
    /\ LET before == onBeforeSettle(verifiedPayments, Body(name), now)
       IN  /\ verifiedPayments' = before.cache
           /\ requests' = Supersede([requests EXCEPT ![s] =
                 IF before.abort
                 THEN [IdleRequest EXCEPT !.pc = "done", !.body = name,
                          !.response = SettleCatch(before.reason, TRUE)]
                 ELSE [IdleRequest EXCEPT !.pc = "admitted", !.body = name,
                          !.live = TRUE]], before.cache, {})
    /\ against' = [against EXCEPT !.settle[s] = paymentRequirements, !.issued[name] = TRUE]
    /\ UNCHANGED <<ledgerVars, lastTx, now, ticks, executed, consumed, passed, flow,
                   startAll, calldata, monitor>>

\* The record of the body named name is in the cache and within the TTL.
FreshRecord(name) ==
    /\ MapHas(verifiedPayments, HashOf(name))
    /\ verifiedPayments[HashOf(name)] # 0
    /\ now - verifiedPayments[HashOf(name)] <= TTL

\* C34: the record a successful verify writes is found under the payload's hash
\* whatever requirement it was verified against, and a settle request is
\* admitted exactly when the payload has a record within the TTL, whatever
\* requirement the settle request carries: also one that differs from the
\* requirement of the verification.
C34_KeyIsPayloadOnly ==
    /\ [][\A s \in Slots :
            Started(s) =>
               (requests'[s].pc = "admitted" <=> FreshRecord(requests'[s].body))]_vars
    /\ [][\A name \in VerifyInputs :
            against'.verified[name] # against.verified[name] =>
               /\ MapHas(verifiedPayments', HashOf(name))
               /\ verifiedPayments'[HashOf(name)] = now]_vars

\* A payload verified against the resource's requirement was admitted by a
\* settle request carrying the requirement of twice the amount.
C34_Witness ==
    \E s \in Slots :
       /\ requests[s].pc = "admitted"
       /\ requests[s].body = "long"
       /\ against.verified["long"] = Requirement
       /\ against.settle[s] = [Requirement EXCEPT !.amount = 2 * Requirement.amount]

\* ------------------------------------------------------------------ supply and balances

RECURSIVE SumOver(_, _)
SumOver(f, S) ==
    IF S = {} THEN 0
    ELSE LET x == CHOOSE y \in S : TRUE
         IN  f[x] + SumOver(f, S \ {x})

\* C35: totalSupply is the sum of all balances in every state; a successful mint
\* raises both by its amount, and no other call changes either.
C35_SupplyIsSumOfBalances ==
    /\ totalSupply = SumOver(balanceOf, Addresses)
    /\ lastTx.pre.totalSupply = SumOver(lastTx.pre.balanceOf, Addresses)
    /\ IF lastTx.fn = "mint" /\ lastTx.status = "success"
       THEN /\ totalSupply = lastTx.pre.totalSupply + lastTx.args.value
            /\ SumOver(balanceOf, Addresses) =
                  SumOver(lastTx.pre.balanceOf, Addresses) + lastTx.args.value
       ELSE /\ totalSupply = lastTx.pre.totalSupply
            /\ SumOver(balanceOf, Addresses) = SumOver(lastTx.pre.balanceOf, Addresses)

\* After two mints and a transfer by authorization the supply is spread over
\* three accounts.
C35_Witness ==
    /\ IsAuthorizedTransfer(lastTx)
    /\ lastTx.status = "success"
    /\ lastTx.args.value > 0
    /\ totalSupply = 3
    /\ balanceOf[Buyer] > 0
    /\ balanceOf[Payee] > 0
    /\ balanceOf[Owner] > 0

\* ------------------------------------------------------------------ unchecked arithmetic

\* C36: in every transfer that passed the balance check, the unchecked
\* subtraction and addition of _transfer stay inside the word: the sender's
\* balance covers the amount, the recipient's balance plus the amount is at
\* most MaxUint, and the balances written are the exact difference and sum.
C36_UncheckedNeverWraps ==
    (MovesValue(lastTx) \/ (IsAuthorizedCall(lastTx) /\ lastTx.status = "success")) =>
       LET from == lastTx.args.from
           to == lastTx.args.to
           amount == lastTx.args.value
           fromBalance == lastTx.pre.balanceOf[from]
           toBalance == IF to = from THEN fromBalance - amount ELSE lastTx.pre.balanceOf[to]
       IN  /\ fromBalance - amount >= 0
           /\ toBalance + amount <= MaxUint
           /\ balanceOf[to] = toBalance + amount
           /\ to # from => balanceOf[from] = fromBalance - amount

\* With the supply at the top of the word, value moved between the two accounts
\* that hold all of it.
C36_Witness ==
    /\ MovesValue(lastTx)
    /\ lastTx.args.from # lastTx.args.to
    /\ lastTx.args.value > 0
    /\ totalSupply = MaxUint
    /\ balanceOf[lastTx.args.to] + balanceOf[lastTx.args.from] = MaxUint

\* ------------------------------------------------------------------ verify, then settle

\* This step is a settle request for the body named name, issued before the TTL
\* has passed since its last successful verify, no settle request for it having
\* been issued since that verify.
SettlesAfterVerify(s, name) ==
    /\ Started(s)
    /\ requests'[s].body = name
    /\ against.at[name] # Never
    /\ now < against.at[name] + TTL
    /\ ~against.issued[name]

\* C37 as stated: such a settle request is admitted in every interleaving.
C37_AdmittedInEveryInterleaving ==
    [][\A s \in Slots, name \in Payloads :
          SettlesAfterVerify(s, name) => requests'[s].pc = "admitted"]_vars

\* C37, amended: such a settle request is admitted when no settle attempt of the
\* payload was in flight at the return of the verify. An attempt in flight then
\* removes the new record when it finishes, and the request that follows is
\* rejected as unverified.
C37_AdmittedUnlessRaced ==
    /\ [][\A s \in Slots, name \in Payloads :
            (SettlesAfterVerify(s, name) /\ ~against.inflight[name]) =>
               requests'[s].pc = "admitted"]_vars
    /\ [][\A s \in Slots, name \in Payloads :
            (SettlesAfterVerify(s, name) /\ requests'[s].pc # "admitted") =>
               /\ against.inflight[name]
               /\ requests'[s].response = OrderingError]_vars

\* A payload was verified while an earlier settle attempt of it was in flight;
\* that attempt found the ledger unreachable and finished, and the settle
\* request issued next, within the TTL, was rejected as unverified.
C37_Witness ==
    \E s \in Slots :
       /\ requests[s].pc = "done"
       /\ requests[s].body = "long"
       /\ requests[s].response = OrderingError
       /\ against.at["long"] # Never
       /\ now < against.at["long"] + TTL
       /\ against.inflight["long"]
       /\ against.issued["long"]
       /\ ~authorizationState[<<Buyer, "n1">>]

\* ------------------------------------------------------------------ the latest verification

\* C38: a successful verify leaves the payload's record with the current time,
\* whether or not there was a record before, and changes no other key; so the
\* one record of a payload always carries the time of its latest successful
\* verify, and a settle request that finds the record is admitted exactly when
\* that time is at most the TTL ago.
C38_LatestVerifyCounts ==
    /\ [](\A name \in Payloads :
            MapHas(verifiedPayments, HashOf(name)) =>
               verifiedPayments[HashOf(name)] = against.at[name])
    /\ [][\A name \in Payloads :
            (against' # against /\ against'.at[name] = now /\ ~against'.issued[name]) =>
               /\ verifiedPayments'[HashOf(name)] = now
               /\ DOMAIN verifiedPayments' = DOMAIN verifiedPayments \cup {HashOf(name)}]_vars
    /\ [][\A s \in Slots :
            (Started(s) /\ MapHas(verifiedPayments, HashOf(requests'[s].body))) =>
               (requests'[s].pc = "admitted" <=>
                   now - against.at[requests'[s].body] <= TTL)]_vars

\* The record of a payload was written again at a later time while a settle
\* attempt admitted on the earlier record is still in flight.
C38_Witness ==
    \E s \in Slots :
       /\ requests[s].pc = "admitted"
       /\ requests[s].body = "long"
       /\ ~requests[s].live
       /\ against.inflight["long"]
       /\ MapHas(verifiedPayments, HashOf("long"))
       /\ verifiedPayments[HashOf("long")] = now
       /\ now > StartTime

\* ------------------------------------------------------------------ monitor

\* MONITOR_MAX_EVENTS, and the number of events posted in a run.
MAX_EVENTS == 2
MaxPosted == MAX_EVENTS + 1

\* The dashboard that may hold a stream open, and the POST /events requests
\* that may be in progress at once.
StreamClients == {"c1"}
Posts == {"p1", "p2"}

IdlePost == [pc |-> "idle", batch |-> <<>>, current |-> 0, inserted |-> <<>>, status |-> 0]

\* events: the in-memory list; sseClients: the open streams; arrived, sent and
\* log are the events pushed, the broadcasts made and the lines appended to
\* events.jsonl, each in order; posts: the POST /events requests in progress.
MonitorInit ==
    [events |-> <<>>, sseClients |-> {}, arrived |-> <<>>, sent |-> <<>>, log |-> <<>>,
     posted |-> 0, posts |-> [r \in Posts |-> IdlePost]]

\* trimEvents dropping the newest events.
trimEventsNewest(list) ==
    IF Len(list) <= MAX_EVENTS THEN list ELSE SubSeq(list, 1, MAX_EVENTS)

\* trimEvents: events.splice(0, events.length - MAX_EVENTS) when the list is
\* longer than MAX_EVENTS.
trimEvents(list) ==
    IF Len(list) <= MAX_EVENTS THEN list
    ELSE SubSeq(list, Len(list) - MAX_EVENTS + 1, Len(list))

\* broadcastSSE: one write to every connected client.
broadcastSSE(sent, sseClients, event) == Append(sent, [event |-> event, to |-> sseClients])

MonitorFrame == UNCHANGED <<ledgerVars, lastTx, now, ticks, executed, verifiedPayments,
                            requests, consumed, passed, flow, startAll, calldata, against>>

\* GET /events/stream, and the close of the connection.
StreamOpen(c) ==
    /\ c \notin monitor.sseClients
    /\ monitor' = [monitor EXCEPT !.sseClients = @ \cup {c}]
    /\ MonitorFrame

StreamClose(c) ==
    /\ c \in monitor.sseClients
    /\ monitor' = [monitor EXCEPT !.sseClients = @ \ {c}]
    /\ MonitorFrame

\* POST /events with a body of n events: ingestEvents normalizes them.
PostEvents(r, n) ==
    /\ monitor.posts[r].pc = "idle"
    /\ monitor.posted + n <= MaxPosted
    /\ monitor' = [monitor EXCEPT
          !.posted = @ + n,
          !.posts[r] = [IdlePost EXCEPT !.pc = "loop",
                           !.batch = [i \in 1 .. n |-> monitor.posted + i]]]
    /\ MonitorFrame

\* One turn of the loop of ingestEvents up to its await: events.push,
\* trimEvents, broadcastSSE and the start of appendFile; or, the batch being
\* done, the 200 response.
IngestStep(r) ==
    /\ monitor.posts[r].pc = "loop"
    /\ LET job == monitor.posts[r]
       IN  monitor' =
              IF job.batch = <<>>
              THEN [monitor EXCEPT !.posts[r] = [job EXCEPT !.pc = "answered", !.status = 200]]
              ELSE LET event == Head(job.batch)
                   IN  [monitor EXCEPT
                          !.events = trimEvents(Append(@, event)),
                          !.arrived = Append(@, event),
                          !.sent = broadcastSSE(@, monitor.sseClients, event),
                          !.posts[r] = [job EXCEPT !.pc = "persisting", !.current = event,
                                                   !.batch = Tail(@)]]
    /\ MonitorFrame

\* appendFile settles: the line is in the file and the loop goes on, or the
\* write failed and the request is answered with 400.
PersistSettles(r, failed) ==
    /\ monitor.posts[r].pc = "persisting"
    /\ LET job == monitor.posts[r]
       IN  monitor' =
              IF failed
              THEN [monitor EXCEPT !.posts[r] = [job EXCEPT !.pc = "answered", !.status = 400]]
              ELSE [monitor EXCEPT
                      !.log = Append(@, job.current),
                      !.posts[r] = [job EXCEPT !.pc = "loop",
                                               !.inserted = Append(@, job.current)]]
    /\ MonitorFrame

PostClose(r) ==
    /\ monitor.posts[r].pc = "answered"
    /\ monitor' = [monitor EXCEPT !.posts[r] = IdlePost]
    /\ MonitorFrame

\* The last n elements of a sequence, or all of it.
LastOf(seq, n) == IF Len(seq) <= n THEN seq ELSE SubSeq(seq, Len(seq) - n + 1, Len(seq))

Elements(seq) == {seq[i] : i \in DOMAIN seq}

Init ==
    /\ owner = Owner
    /\ totalSupply = 0
    /\ balanceOf = [a \in Addresses |-> 0]
    /\ authorizationState = [k \in Addresses \X Nonces |-> FALSE]
    /\ lastTx = [fn |-> "constructor", sender |-> Owner, args |-> NoArgs,
                 timestamp |-> StartSec, status |-> "success", error |-> "", logs |-> <<>>,
                 pre |-> [owner |-> Owner, totalSupply |-> 0,
                          balanceOf |-> [a \in Addresses |-> 0],
                          authorizationState |-> [k \in Addresses \X Nonces |-> FALSE]]]
    /\ now = StartTime
    /\ ticks = 0
    /\ verifiedPayments = <<>>
    /\ requests = [s \in Slots |-> IdleRequest]
    /\ executed = [k \in Addresses \X Nonces |-> 0]
    /\ consumed = {}
    /\ passed = {}
    /\ flow = IdleFlow
    /\ startAll = StartAllInit
    /\ calldata = NoCalldata
    /\ against = NoneAgainst
    /\ monitor = MonitorInit

\* Callers of the ledger take turns: a transaction, then its receipt.
MintCall ==
    /\ lastTx.fn = "none"
    /\ \E sender \in {Owner, Buyer}, to \in {Buyer, Owner}, amount \in MintAmounts :
          mint(sender, to, amount)

TransferCall ==
    /\ lastTx.fn = "none"
    /\ \E sender \in {Buyer, Payee}, to \in {Buyer, Payee, Zero}, amount \in Values :
          transfer(sender, to, amount)

AuthorizedTransferCall ==
    /\ lastTx.fn = "none"
    /\ \E from \in {Buyer}, to \in {Buyer, Payee, Zero}, value \in Values,
          w \in Windows, nonce \in Nonces :
          \E sig \in SignatureChoices(Authorization(from, to, value, w, nonce)) :
             transferWithAuthorization(Facilitator,
                [Authorization(from, to, value, w, nonce) EXCEPT !.signature = sig])

BlockTime ==
    /\ lastTx.fn = "none"
    /\ Tick(1000)

LedgerNext ==
    \/ MintCall
    \/ TransferCall
    \/ AuthorizedTransferCall
    \/ BlockTime
    \/ ReceiptRead

LedgerSpec == Init /\ [][LedgerNext]_vars

\* The deployment funds the buyer once, with enough for two payments.
Fund ==
    /\ totalSupply = 0
    /\ mint(Owner, Buyer, 2 * Requirement.amount)

Next ==
    \/ Fund
    \/ \E p \in VerifyInputs : Verify(p)
    \/ \E s \in Slots, p \in Payloads : SettleRequest(s, p)
    \/ \E s \in Slots, throws \in BOOLEAN : SettleSubmit(s, throws)
    \/ \E s \in Slots : SettleUnreachable(s)
    \/ \E s \in Slots : SettleFinish(s)
    \/ \E s \in Slots : Close(s)
    \/ \E p \in Payloads, part \in Parts : VerifyMalformed(p, part)
    \/ \E s \in Slots, p \in Payloads, part \in Parts : SettleMalformed(s, p, part)
    \/ \E d \in {1, TTL} : (d = 1 => now >= StartTime + TTL) /\ Tick(d)

Spec == Init /\ [][Next]_vars

\* The ledger under calls of both overloads with every signature of SignaturesFor.
PackedCall ==
    /\ lastTx.fn = "none"
    /\ \E a \in SigCalls : \E sig \in SignaturesFor(a) :
          transferWithAuthorization(Facilitator, [a EXCEPT !.signature = sig])

SplitCall ==
    /\ lastTx.fn = "none"
    /\ \E a \in SigCalls : \E sig \in SplitSignatures(a) : \E v \in Bytes1 :
          transferWithAuthorizationSplit(Facilitator, a, v, RS(sig))

SignatureNext ==
    \/ Fund
    \/ PackedCall
    \/ SplitCall
    \/ BlockTime
    \/ ReceiptRead

SignatureSpec == Init /\ [][SignatureNext]_vars

\* The workspace facilitator in front of the funded ledger.
WsNext ==
    \/ Fund
    \/ \E p \in VerifyInputs, part \in WsParts : WsVerify(p, part)
    \/ \E s \in Slots, p \in Payloads, part \in WsParts : WsSettle(s, p, part)
    \/ \E s \in Slots, throws \in BOOLEAN : SettleSubmit(s, throws)
    \/ \E s \in Slots : SettleUnreachable(s)
    \/ \E s \in Slots : WsSettleFinish(s)
    \/ \E s \in Slots : Close(s)

WsSpec == Init /\ [][WsNext]_vars

\* Tool calls of the payer bridge against the resource server, for every
\* configuration of the monitor.
FlowNext ==
    \/ flow.pc = "idle" /\ Fund
    \/ \E b, s \in MonitorModes, city \in Cities : ToolCall(b, s, city)
    \/ \E status \in {402, 200, 500} : InitialRequest(status)
    \/ AfterInitial
    \/ PaidRequest
    \/ AfterPaid
    \/ FlowClose

FlowSpec == Init /\ [][FlowNext]_vars

\* The facilitator with its requests in flight, under fair scheduling: a ledger
\* call returns or throws, and a handler whose wait is over runs on.
LiveNext ==
    \/ Fund
    \/ \E s \in Slots, p \in Payloads : VerifyStart(s, p)
    \/ \E s \in Slots, throws \in BOOLEAN : VerifyReturn(s, throws)
    \/ \E s \in Slots, p \in Payloads : SettleRequest(s, p)
    \/ \E s \in Slots : LedgerReturns(s)
    \/ \E s \in Slots : SettleFinish(s)
    \/ \E s \in Slots : Close(s)

LiveSpec ==
    /\ Init
    /\ [][LiveNext]_vars
    /\ \A s \in Slots :
          /\ WF_vars(\E throws \in BOOLEAN : VerifyReturn(s, throws))
          /\ WF_vars(LedgerReturns(s))
          /\ WF_vars(SettleFinish(s))

StartNext ==
    \/ \E ok \in BOOLEAN : Prerequisites(ok)
    \/ \E b, f, p \in CastOutputs : DeriveAddresses(b, f, p)
    \/ \E i \in DOMAIN ServiceNames, spawned \in BOOLEAN : StartService(ServiceNames[i], spawned)
    \/ \E i \in DOMAIN ServiceNames, ready \in BOOLEAN : WaitReady(ServiceNames[i], ready)
    \/ \E created, parsed, minted \in BOOLEAN : DeployAndMint(created, parsed, minted)
    \/ WriteState

StartSpec == Init /\ [][StartNext]_vars

\* The ledger under packed calls with every v and several signature lengths.
RecoverCall ==
    /\ lastTx.fn = "none"
    /\ \E a \in SigCalls : \E sig \in RecoverInputs(a) :
          transferWithAuthorization(Facilitator, [a EXCEPT !.signature = sig])

RecoverNext ==
    \/ Fund
    \/ RecoverCall
    \/ ReceiptRead

RecoverSpec == Init /\ [][RecoverNext]_vars

\* The facilitator under requests for one payload that carry either
\* requirement; the ledger stage of an admitted settlement faults.
RequirementNext ==
    \/ Fund
    \/ \E r \in Requirements : VerifyAgainst("long", r)
    \/ \E s \in Slots, r \in Requirements : SettleAgainst(s, "long", r)
    \/ \E s \in Slots : SettleUnreachable(s)
    \/ \E s \in Slots : SettleFinish(s)
    \/ \E s \in Slots : Close(s)
    \/ Tick(TTL)

RequirementSpec == Init /\ [][RequirementNext]_vars

\* The facilitator with the history of the last verify, under requests for one
\* payload.
RaceNext ==
    \/ Fund
    \/ VerifyAgainst("long", Requirement)
    \/ \E s \in Slots : SettleAgainst(s, "long", Requirement)
    \/ \E s \in Slots : SettleSubmit(s, FALSE)
    \/ \E s \in Slots : SettleUnreachable(s)
    \/ \E s \in Slots : SettleFinish(s)
    \/ \E s \in Slots : Close(s)
    \/ \E d \in {1, TTL} : Tick(d)

RaceSpec == Init /\ [][RaceNext]_vars

MonitorNext ==
    \/ \E c \in StreamClients : StreamOpen(c)
    \/ \E c \in StreamClients : StreamClose(c)
    \/ \E r \in Posts, n \in 1 .. 2 : PostEvents(r, n)
    \/ \E r \in Posts : IngestStep(r)
    \/ \E r \in Posts, failed \in BOOLEAN : PersistSettles(r, failed)
    \/ \E r \in Posts : PostClose(r)

MonitorSpec == Init /\ [][MonitorNext]_vars

====
